---- MODULE Spec2Model ----
(***************************************************************************)
(* Client-side reactive resource-cache layer of VRC-Circle:                *)
(*   - account-scope.ts      the process-wide active account id            *)
(*   - resource-store.ts     the generic per-scope cache (ResourceStore)   *)
(*   - singleton-registry.ts registerSingleton / getSingleton              *)
(*   - alert-store.ts        the navigable alert list (AlertStore)         *)
(*   - user-store.ts         the user cache and its friends sub-cache      *)
(*   - accounts-store.ts     the list of stored accounts (AccountsStore)    *)
(*   - developer-mode-store  the persisted developer-mode flag             *)
(*   - vrchat-status-store   the polled service status and its alert       *)
(*                                                                         *)
(* JavaScript null is the string NULL, a missing option is ABSENT, an own  *)
(* property holding undefined is UNDEFINED.  A promise chain started by    *)
(* ensure() is a numbered fetch; 0 is "no promise", and the number of a    *)
(* settled chain is free again because nothing refers to it any more.      *)
(* Time is counted in units of half a staleness window and starts later    *)
(* than one window after 0, as Date.now() does: 0 is the value the code    *)
(* uses for "never fetched", and an entry stamped 0 is always stale.        *)
(***************************************************************************)
EXTENDS Integers, Sequences, FiniteSets, TLC

\* ---------------------------------------------------------------- bounds
MaxTime == 6
MaxFetches == 3
MaxCallers == 2
MaxListeners == 2
MaxFactories == 2
MaxRegCalls == 3
MaxAlerts == 3
MaxFriendFetches == 2
MaxStatusFetches == 2
MaxSaves == 2

\* ------------------------------------------------------------- constants
StaleTime == 2
\* Date.now() when the store is constructed: more than a window after 0
StartTime == StaleTime + 1
DEFAULT_SCOPE_KEY == "__no_active_account__"

NULL == "null"
ABSENT == "absent"
UNDEFINED == "undefined"
Accounts == {"usr_a", "usr_b"}
ScopeId == Accounts \cup {NULL}
ScopeOption == ScopeId \cup {ABSENT, UNDEFINED}
Values == {"v1", "v2"}
Errors == {"network"}
Callers == 1..MaxCallers
ListenerIds == 1..MaxListeners
\* the account listener of the ResourceStore; it is no member of ListenerIds
StoreListener == 0
\* the account listener of the UserStore, registered after its super() call
FriendsListener == 0 - 1
\* friendsStaleTime = 30_000, half the default staleTime
FriendsStaleTime == 1
FRIEND_SCOPE_DEFAULT == "__no_active_account__"

VARIABLES
  currentAccountId,  \* account-scope.ts: currentAccountId
  activeAccountId,   \* ResourceStore.activeAccountId
  states,            \* ResourceStore.states: key -> [cache, inflight, updatedAt]
  listeners,         \* ResourceStore.listeners, in insertion order
  now,               \* Date.now()
  fetches,           \* outstanding load().then().finally() chains
  waiting,           \* per caller: the chain its ensure() promise follows, or 0
  emitted,           \* listener calls made by the last step: <<listener, value>>
  settled,           \* ensure() promises settled by the last step
  lastOp,            \* the operation the last step executed
  accountListeners,  \* account-scope.ts: listeners, in insertion order
  accountCalls,      \* account listener calls made by the last step: <<listener, id>>
  registry,          \* globalThis.__STORE_SINGLETONS__: key -> instance, 0 if unset
  regCalls,          \* per key: registerSingleton calls so far
  factoryRuns,       \* per key: the factory executions, <<call number, factory>>
  instances,         \* number of instances constructed so far
  regLast,           \* the registry call the last step made and what it returned
  alerts,            \* AlertStore.cache.alerts
  currentIndex,      \* AlertStore.cache.currentIndex
  alertListeners,    \* AlertStore.listeners, in insertion order
  alertIds,          \* number of alert ids generated so far
  alertEmitted,      \* listener calls made by the last step: <<listener, snapshot>>
  alertLast,         \* the AlertStore call the last step made and what it returned
  friendStates,      \* UserStore.friendStates: key -> [cache, inflight, updatedAt]
  friendListeners,   \* UserStore.friendListeners, in insertion order
  friendFetches,     \* outstanding getOnlineFriends().then().finally() chains
  friendEmitted,     \* friend listener calls made by the last step
  friendLast,        \* the friends operation the last step executed
  devCache,          \* DeveloperModeStore.cache
  devInflight,       \* DeveloperModeStore.inflight: 1 while the promise is set
  devFetch,          \* the getDeveloperMode().then().finally() chain
  devListeners,      \* DeveloperModeStore.listeners, in insertion order
  devWaiting,        \* per caller: the call whose promise it waits for
  devToggles,        \* the values of the toggle() calls awaiting the backend
  devEmitted,        \* DeveloperModeStore listener calls made by the last step
  devSettled,        \* ensure()/refresh() promises settled by the last step
  devLast,           \* the DeveloperModeStore operation the last step executed
  devBackend,        \* the developer-mode flag the backend has persisted
  devToggled,        \* the value the last toggle() resolved with, for as long
                     \* as no set(), toggle() or refresh() was called after it
  accCache,          \* AccountsStore.cache: the set of stored accounts, or null
  accUpdatedAt,      \* AccountsStore.updatedAt
  accInflight,       \* AccountsStore.inflight: 1 while the promise is set
  accFetch,          \* the getAllAccounts().then().finally() chain
  accListeners,      \* AccountsStore.listeners, in insertion order
  accWaiting,        \* per caller: the call whose promise it waits for
  accBackend,        \* the accounts the backend has stored
  accSaveSeq,        \* how many saveCurrentAccount commands have completed
  accPending,        \* removeAccount()/clearAll() calls awaiting the backend
  accEmitted,        \* AccountsStore listener calls made by the last step
  accSettled,        \* AccountsStore promises settled by the last step
  accLast,           \* the AccountsStore operation the last step executed
  statusStatus,      \* VRChatStatusStore.cache.status: its indicator, or null
  statusLoading,     \* VRChatStatusStore.cache.isLoading
  statusError,       \* VRChatStatusStore.cache.error
  statusAlertId,     \* VRChatStatusStore.currentAlertId, 0 for null
  statusPending,     \* fetchStatus() calls awaiting getVrchatStatus()
  statusPolling,     \* VRChatStatusStore.pollInterval: a timer id, 0 for null
  statusTimers,      \* the interval timers that are set and not cleared
  statusListeners,   \* VRChatStatusStore.listeners, in insertion order
  statusEmitted,     \* VRChatStatusStore listener calls made by the last step
  statusCreated,     \* ids addAlert() returned to the status store so far
  statusLast,        \* the VRChatStatusStore operation the last step executed
  statusSettled      \* how the fetchStatus() promises the last step ended settled

storeVars == <<currentAccountId, activeAccountId, states, listeners, now,
               fetches, waiting, emitted, settled, lastOp,
               accountListeners, accountCalls>>
registryVars == <<registry, regCalls, factoryRuns, instances, regLast>>
alertVars == <<alerts, currentIndex, alertListeners, alertIds, alertEmitted, alertLast>>
friendKept == <<friendStates, friendListeners, friendFetches, friendLast>>
friendVars == <<friendKept, friendEmitted>>
devVars == <<devCache, devInflight, devFetch, devListeners, devWaiting,
             devToggles, devEmitted, devSettled, devLast, devBackend,
             devToggled>>
statusVars == <<statusStatus, statusLoading, statusError, statusAlertId,
                statusPending, statusPolling, statusTimers, statusListeners,
                statusEmitted,
                statusCreated, statusLast, statusSettled>>
accVars == <<accCache, accUpdatedAt, accInflight, accFetch, accListeners,
            accWaiting, accBackend, accSaveSeq, accPending, accEmitted,
            accSettled, accLast>>
otherStores == <<devVars, statusVars, accVars>>
notStore == <<registryVars, alertVars, friendKept, otherStores>>

\* ------------------------------------------------------ resource-store.ts
\* mutant: one entry, and so one in-flight slot, for all scopes
scopeKeyShared(scopeId) == DEFAULT_SCOPE_KEY

\* scopeKey(scopeId): scopeId ?? DEFAULT_SCOPE_KEY
scopeKey(scopeId) == IF scopeId = NULL THEN DEFAULT_SCOPE_KEY ELSE scopeId

FreshState == [cache |-> NULL, inflight |-> 0, updatedAt |-> 0]

\* getState: the states map after the lookup (a missing entry is created)
getState(st, scopeId) ==
  IF scopeKey(scopeId) \in DOMAIN st
    THEN st
    ELSE [k \in DOMAIN st \cup {scopeKey(scopeId)} |->
            IF k \in DOMAIN st THEN st[k] ELSE FreshState]

\* mutant: the window closes one tick early (>= instead of >)
isStaleAtWindow(state, t) ==
  IF state.cache = NULL THEN TRUE ELSE t - state.updatedAt >= StaleTime

isStale(state, t) ==
  IF state.cache = NULL THEN TRUE ELSE t - state.updatedAt > StaleTime

\* the listeners whose callback throws whenever it is called
ThrowingListeners == {1}

\* mutant: nobody is notified
emitNone(ls, value) == <<>>

\* mutant: emit without try/catch, the first exception ends the loop
emitUncaught(ls, value) ==
  LET thrown == {i \in 1..Len(ls) : ls[i] \in ThrowingListeners}
      last == IF thrown = {} THEN Len(ls)
              ELSE CHOOSE i \in thrown : \A j \in thrown : i <= j
  IN [i \in 1..last |-> <<ls[i], value>>]

\* emit: the calls made, one per listener in insertion order; the try/catch
\* around each call ends a listener's exception there
emit(ls, value) == [i \in 1..Len(ls) |-> <<ls[i], value>>]

\* options.scopeId ?? this.activeAccountId
orActive(opt, active) == IF opt \in {ABSENT, UNDEFINED, NULL} THEN active ELSE opt

\* hasExplicitScope ? options.scopeId ?? null : this.activeAccountId
ensureTarget(opt, active) ==
  IF opt = ABSENT THEN active ELSE IF opt = UNDEFINED THEN NULL ELSE opt

\* mutant: set() stamps every write with the current time
setStatesStamped(st, value, stale, scopeOpt, active, t) ==
  LET scopeId == orActive(scopeOpt, active)
      st1 == getState(st, scopeId)
  IN [st1 EXCEPT ![scopeKey(scopeId)] = [@ EXCEPT !.cache = value, !.updatedAt = t]]

\* the writes of set(): the states map it leaves
setStates(st, value, stale, scopeOpt, active, t) ==
  LET scopeId == orActive(scopeOpt, active)
      st1 == getState(st, scopeId)
  IN [st1 EXCEPT ![scopeKey(scopeId)] =
        [@ EXCEPT !.cache = value,
                  !.updatedAt = IF value # NULL /\ ~stale THEN t ELSE 0]]

\* the listener calls of set()
setEmits(ls, value, scopeOpt, active) ==
  IF orActive(scopeOpt, active) = active THEN emit(ls, value) ELSE <<>>

\* the method the step executed and the scope it acted on
Op(name, scopeId) == [op |-> name, scope |-> scopeId]

Settle(c, f, status, res) == [caller |-> c, f |-> f, status |-> status, res |-> res]

StoreInit ==
  /\ currentAccountId = NULL
  /\ activeAccountId = NULL
  \* the constructor's subscribeActiveAccount replays null: getSnapshot()
  \* creates the entry of the no-account scope
  /\ states = getState(<<>>, NULL)
  /\ listeners = <<>>
  \* the listener the constructor passed to subscribeActiveAccount
  /\ accountListeners = <<StoreListener, FriendsListener>>
  /\ accountCalls = <<>>
  /\ now = StartTime
  /\ fetches = <<>>
  /\ waiting = [c \in Callers |-> 0]
  /\ emitted = <<>>
  /\ settled = {}
  /\ lastOp = Op("init", NULL)

\* ------------------------------------------------- singleton-registry.ts
\* keys of the declared __STORE_SINGLETONS__ type
RegistryKeys == {"user", "alert"}
Factories == 1..MaxFactories

RegCall(name, key, factory, ret) == [op |-> name, key |-> key, factory |-> factory, ret |-> ret]

\* if (!globalThis.__STORE_SINGLETONS__) globalThis.__STORE_SINGLETONS__ = {};
RegistryInit ==
  /\ registry = [k \in RegistryKeys |-> 0]
  /\ regCalls = [k \in RegistryKeys |-> 0]
  /\ factoryRuns = [k \in RegistryKeys |-> <<>>]
  /\ instances = 0
  /\ regLast = RegCall("init", "", 0, 0)

\* mutant: the existence check is dropped, every call constructs
mustCreateAlways(reg, key) == TRUE

\* if (!registry[key])
mustCreate(reg, key) == reg[key] = 0

\* registerSingleton(key, factory); a factory call constructs a new instance
registerSingleton(key, factory) ==
  /\ regCalls[key] < MaxRegCalls
  /\ regCalls' = [regCalls EXCEPT ![key] = @ + 1]
  /\ IF mustCreate(registry, key)
       THEN /\ instances' = instances + 1
            /\ registry' = [registry EXCEPT ![key] = instances + 1]
            /\ factoryRuns' = [factoryRuns EXCEPT ![key] = Append(@, <<regCalls[key] + 1, factory>>)]
       ELSE UNCHANGED <<instances, registry, factoryRuns>>
  /\ regLast' = RegCall("registerSingleton", key, factory, registry'[key])
  /\ UNCHANGED <<storeVars, alertVars, friendVars, otherStores>>

\* getSingleton(key)
getSingleton(key) ==
  /\ regLast' = RegCall("getSingleton", key, 0, registry[key])
  /\ UNCHANGED <<registry, regCalls, factoryRuns, instances>>
  /\ UNCHANGED <<storeVars, alertVars, friendVars, otherStores>>

\* the module is evaluated again (hot reload, a second import path): the
\* registry object on globalThis exists, so it is kept
ReloadModule ==
  /\ regLast' = RegCall("reload", "", 0, 0)
  /\ UNCHANGED <<registry, regCalls, factoryRuns, instances>>
  /\ UNCHANGED <<storeVars, alertVars, friendVars, otherStores>>

\* --------------------------------------------------------- alert-store.ts
\* currentIndex is a JavaScript number and setCurrentIndex takes any number:
\* a number x is kept as the integer 2x, so that halves are values too
Num(n) == 2 * n

\* the remainder operator: the result has the sign of the dividend
jsRemainder(a, b) == IF a >= 0 THEN a % b ELSE 0 - ((0 - a) % b)

AlertSnapshot(as, idx) == [alerts |-> as, currentIndex |-> idx]

\* the method that ran last, its argument and result, and the index it found
AlertCall(name, arg, ret) ==
  [op |-> name, arg |-> arg, ret |-> ret, was |-> currentIndex]

AlertInit ==
  /\ alerts = <<>>
  /\ currentIndex = 0
  /\ alertListeners = <<>>
  /\ alertIds = 0
  /\ alertEmitted = <<>>
  /\ alertLast = AlertCall("init", 0, 0)

\* AlertStore.emit
alertEmit(ls, as, idx) == [i \in 1..Len(ls) |-> <<ls[i], AlertSnapshot(as, idx)>>]

\* mutant: the index is left alone after a removal
clampIndexNever(idx, len) == idx

\* the index adjustment of removeAlert and clearDismissable
clampIndex(idx, len) ==
  IF idx >= Num(len) /\ len > 0 THEN Num(len - 1) ELSE IF len = 0 THEN 0 ELSE idx

\* alerts[index]: an element for an integer within the array, else undefined
hasElement(as, index) == index % 2 = 0 /\ 0 <= index /\ index < Num(Len(as))

\* getCurrentAlert(): alerts[currentIndex] || null, null on an empty list;
\* the result is the alert's id, null is 0 (no alert has that id)
getCurrentAlert ==
  IF Len(alerts) = 0 THEN 0
  ELSE IF hasElement(alerts, currentIndex)
    THEN alerts[(currentIndex \div 2) + 1].id ELSE 0

\* subscribe(listener) and its disposer
AlertSubscribe(l) ==
  /\ alertListeners' = IF \E i \in 1..Len(alertListeners) : alertListeners[i] = l
                         THEN alertListeners ELSE Append(alertListeners, l)
  /\ alertEmitted' = << <<l, AlertSnapshot(alerts, currentIndex)>> >>
  /\ alertLast' = AlertCall("subscribe", l, 0)
  /\ UNCHANGED <<alerts, currentIndex, alertIds>>
  /\ UNCHANGED <<storeVars, registryVars, friendVars, otherStores>>

AlertUnsubscribe(l) ==
  /\ \E i \in 1..Len(alertListeners) : alertListeners[i] = l
  /\ alertListeners' = SelectSeq(alertListeners, LAMBDA x : x # l)
  /\ alertEmitted' = <<>>
  /\ alertLast' = AlertCall("unsubscribe", l, 0)
  /\ UNCHANGED <<alerts, currentIndex, alertIds>>
  /\ UNCHANGED <<storeVars, registryVars, friendVars, otherStores>>

\* the effect of addAlert(alert) on the alert store; the generated id is new
addAlertCall(variant, dismissable) ==
  /\ alertIds < MaxAlerts
  /\ alertIds' = alertIds + 1
  /\ alerts' = Append(alerts, [id |-> alertIds + 1, variant |-> variant,
                               dismissable |-> dismissable])
  /\ alertEmitted' = alertEmit(alertListeners, alerts', currentIndex)
  /\ alertLast' = AlertCall("addAlert", 0, alertIds + 1)
  /\ UNCHANGED <<currentIndex, alertListeners>>

\* addAlert(alert)
addAlert(variant, dismissable) ==
  /\ addAlertCall(variant, dismissable)
  /\ UNCHANGED <<storeVars, registryVars, friendVars, otherStores>>

\* mutant: updateAlert() notifies also when it found no alert
updateAlertCallEmitsAlways(id, fields, variant, dismissable) ==
  LET found == {i \in 1..Len(alerts) : alerts[i].id = id}
  IN /\ alerts' = [i \in 1..Len(alerts) |->
                     IF i \in found /\ "variant" \in fields
                       THEN [alerts[i] EXCEPT !.variant = variant] ELSE alerts[i]]
     /\ alertEmitted' = alertEmit(alertListeners, alerts', currentIndex)
     /\ alertLast' = AlertCall("updateAlert", id, IF found = {} THEN 0 ELSE 1)
     /\ UNCHANGED <<currentIndex, alertListeners, alertIds>>

\* the effect of updateAlert(id, updates) on the alert store; updates holds
\* the fields named in `fields`
updateAlertCall(id, fields, variant, dismissable) ==
  LET found == {i \in 1..Len(alerts) : alerts[i].id = id}
  IN /\ IF found = {}
          THEN /\ alertEmitted' = <<>>
               /\ alertLast' = AlertCall("updateAlert", id, 0)
               /\ UNCHANGED alerts
          ELSE LET index == CHOOSE i \in found : \A j \in found : i <= j
               IN /\ alerts' = [alerts EXCEPT ![index] =
                       [id |-> @.id,
                        variant |-> IF "variant" \in fields THEN variant ELSE @.variant,
                        dismissable |-> IF "dismissable" \in fields
                                          THEN dismissable ELSE @.dismissable]]
                  /\ alertEmitted' = alertEmit(alertListeners, alerts', currentIndex)
                  /\ alertLast' = AlertCall("updateAlert", id, 1)
     /\ UNCHANGED <<currentIndex, alertListeners, alertIds>>

\* updateAlert(id, updates)
updateAlert(id, fields, variant, dismissable) ==
  /\ updateAlertCall(id, fields, variant, dismissable)
  /\ UNCHANGED <<storeVars, registryVars, friendVars, otherStores>>

\* the effect of removeAlert(id) on the alert store
removeAlertCall(id) ==
  LET kept == SelectSeq(alerts, LAMBDA a : a.id # id)
  IN /\ alerts' = kept
     /\ IF Len(kept) < Len(alerts)
          THEN /\ currentIndex' = clampIndex(currentIndex, Len(kept))
               /\ alertEmitted' = alertEmit(alertListeners, kept, currentIndex')
               /\ alertLast' = AlertCall("removeAlert", id, 1)
          ELSE /\ alertEmitted' = <<>>
               /\ alertLast' = AlertCall("removeAlert", id, 0)
               /\ UNCHANGED currentIndex
     /\ UNCHANGED <<alertListeners, alertIds>>

\* removeAlert(id)
removeAlert(id) ==
  /\ removeAlertCall(id)
  /\ UNCHANGED <<storeVars, registryVars, friendVars, otherStores>>

\* clearAll()
clearAll ==
  /\ alerts' = <<>>
  /\ currentIndex' = 0
  /\ alertEmitted' = alertEmit(alertListeners, <<>>, 0)
  /\ alertLast' = AlertCall("clearAll", 0, 0)
  /\ UNCHANGED <<alertListeners, alertIds>>
  /\ UNCHANGED <<storeVars, registryVars, friendVars, otherStores>>

\* clearDismissable()
clearDismissable ==
  LET kept == SelectSeq(alerts, LAMBDA a : ~a.dismissable)
  IN /\ alerts' = kept
     /\ IF Len(kept) < Len(alerts)
          THEN /\ currentIndex' = clampIndex(currentIndex, Len(kept))
               /\ alertEmitted' = alertEmit(alertListeners, kept, currentIndex')
               /\ alertLast' = AlertCall("clearDismissable", 0, 1)
          ELSE /\ alertEmitted' = <<>>
               /\ alertLast' = AlertCall("clearDismissable", 0, 0)
               /\ UNCHANGED currentIndex
     /\ UNCHANGED <<alertListeners, alertIds>>
     /\ UNCHANGED <<storeVars, registryVars, friendVars, otherStores>>

\* nextAlert()
nextAlert ==
  /\ IF Len(alerts) = 0
       THEN /\ alertEmitted' = <<>>
            /\ UNCHANGED currentIndex
       ELSE /\ currentIndex' = jsRemainder(currentIndex + Num(1), Num(Len(alerts)))
            /\ alertEmitted' = alertEmit(alertListeners, alerts, currentIndex')
  /\ alertLast' = AlertCall("nextAlert", 0, 0)
  /\ UNCHANGED <<alerts, alertListeners, alertIds>>
  /\ UNCHANGED <<storeVars, registryVars, friendVars, otherStores>>

\* previousAlert(); the index is followed down to -MaxAlerts
previousAlert ==
  /\ currentIndex > Num(0 - MaxAlerts)
  /\ IF Len(alerts) = 0
       THEN /\ alertEmitted' = <<>>
            /\ UNCHANGED currentIndex
       ELSE /\ currentIndex' = IF currentIndex = 0 THEN Num(Len(alerts) - 1)
                                                   ELSE currentIndex - Num(1)
            /\ alertEmitted' = alertEmit(alertListeners, alerts, currentIndex')
  /\ alertLast' = AlertCall("previousAlert", 0, 0)
  /\ UNCHANGED <<alerts, alertListeners, alertIds>>
  /\ UNCHANGED <<storeVars, registryVars, friendVars, otherStores>>

\* mutant: the range test is dropped, any index is stored
setCurrentIndexUnchecked(index) ==
  /\ currentIndex' = index
  /\ alertEmitted' = alertEmit(alertListeners, alerts, index)
  /\ alertLast' = AlertCall("setCurrentIndex", index, 0)
  /\ UNCHANGED <<alerts, alertListeners, alertIds>>
  /\ UNCHANGED <<storeVars, registryVars, friendVars, otherStores>>

\* setCurrentIndex(index)
setCurrentIndex(index) ==
  /\ IF index < 0 \/ index >= Num(Len(alerts))
       THEN /\ alertEmitted' = <<>>
            /\ UNCHANGED currentIndex
       ELSE /\ currentIndex' = index
            /\ alertEmitted' = alertEmit(alertListeners, alerts, index)
  /\ alertLast' = AlertCall("setCurrentIndex", index, 0)
  /\ UNCHANGED <<alerts, alertListeners, alertIds>>
  /\ UNCHANGED <<storeVars, registryVars, friendVars, otherStores>>

\* ------------------------------------- user-store.ts, the friends sub-cache
friendsScopeKey(scopeId) == IF scopeId = NULL THEN FRIEND_SCOPE_DEFAULT ELSE scopeId

\* getOrCreateFriendsState(scopeId): the map with the entry created if missing
getOrCreateFriendsState(st, scopeId) ==
  IF friendsScopeKey(scopeId) \in DOMAIN st THEN st
  ELSE [k \in DOMAIN st \cup {friendsScopeKey(scopeId)} |->
          IF k \in DOMAIN st THEN st[k]
          ELSE [cache |-> NULL, inflight |-> 0, updatedAt |-> 0]]

\* getFriendsSnapshot(scopeId): no entry is created
getFriendsSnapshot(st, scopeId) ==
  IF friendsScopeKey(scopeId) \in DOMAIN st
    THEN st[friendsScopeKey(scopeId)].cache ELSE NULL

\* isFriendsStale(state)
isFriendsStale(state, t) ==
  IF state.cache = NULL THEN TRUE ELSE t - state.updatedAt > FriendsStaleTime

\* mutant: the friends listener runs before the listener of the base store
friendsListenerScopeStale(before, after) == before

\* this.getCurrentScopeId() at the time the account listener registered by
\* the UserStore constructor runs, for a change of the scope from `before` to
\* `after`: the base constructor registered its listener first (super() is
\* called first, the listeners are called in insertion order), so the
\* store's activeAccountId already is the new id
friendsListenerScope(before, after) == after

\* emitFriends: the calls made, one per listener in insertion order
emitFriends(ls, value) == [i \in 1..Len(ls) |-> <<ls[i], value>>]

\* the constructor's subscribeActiveAccount replays null to no friend listener
FriendsInit ==
  /\ friendStates = <<>>
  /\ friendListeners = <<>>
  /\ friendFetches = <<>>
  /\ friendEmitted = <<>>
  /\ friendLast = Op("init", NULL)


\* ---------------------------------------- resource-store.ts, the operations
\* Date.now() advances between event-loop turns
Tick ==
  /\ now < MaxTime
  /\ now' = now + 1
  /\ emitted' = <<>>
  /\ settled' = {}
  /\ lastOp' = Op("tick", NULL)
  /\ accountCalls' = <<>> /\ friendEmitted' = <<>>
  /\ UNCHANGED <<notStore, accountListeners, currentAccountId,
                 activeAccountId, states, listeners,
                 fetches, waiting>>

\* the calls of the loop over the account listeners, in insertion order
accountEmit(ls, id) == [i \in 1..Len(ls) |-> <<ls[i], id>>]

\* mutant: the listeners are called also when the id is the current one
isCurrentAccountNever(current, id) == FALSE

\* if (currentAccountId === accountId) return;
isCurrentAccount(current, id) == current = id

\* mutant: the id is stored but no listener is called
SetActiveAccountIdSilent(id) ==
  /\ lastOp' = Op("setActiveAccountId", id)
  /\ settled' = {}
  /\ currentAccountId' = id
  /\ emitted' = <<>>
  /\ accountCalls' = <<>> /\ friendEmitted' = <<>>
  /\ UNCHANGED <<activeAccountId, states>>
  /\ UNCHANGED <<notStore, accountListeners, listeners, now, fetches, waiting>>

\* setActiveAccountId(id).  The listener the ResourceStore's constructor
\* registered is one of those called: it sets activeAccountId and emits
\* getSnapshot() to the store's subscribers.  The listener the UserStore's
\* constructor registered after it emits the friends snapshot of the new
\* scope to the friend subscribers.
SetActiveAccountId(id) ==
  /\ lastOp' = Op("setActiveAccountId", id)
  /\ settled' = {}
  /\ IF isCurrentAccount(currentAccountId, id)
       THEN /\ emitted' = <<>>
            /\ accountCalls' = <<>> /\ friendEmitted' = <<>>
            /\ UNCHANGED <<currentAccountId, activeAccountId, states>>
       ELSE /\ currentAccountId' = id
            /\ accountCalls' = accountEmit(accountListeners, id)
            /\ friendEmitted' =
                 emitFriends(friendListeners,
                   getFriendsSnapshot(friendStates,
                                      friendsListenerScope(activeAccountId, id)))
            /\ activeAccountId' = id
            /\ states' = getState(states, id)
            /\ emitted' = emit(listeners, states'[scopeKey(id)].cache)
  /\ UNCHANGED <<notStore, accountListeners, listeners, now, fetches, waiting>>

\* new ResourceStore(): from this step on the store variables describe the
\* new instance.  The field initialiser reads getActiveAccountId(); the
\* constructor's subscribeActiveAccount(listener) calls the listener with the
\* current id at once, which assigns activeAccountId and emits getSnapshot(),
\* creating the entry of that scope, to no subscriber.  The new listener takes
\* the place of StoreListener among the account listeners.
Construct ==
  LET initial == currentAccountId
      replayed == currentAccountId
  IN /\ initial \in ScopeId
     /\ activeAccountId' = replayed
     /\ states' = getState(<<>>, replayed)
     /\ listeners' = <<>>
     /\ fetches' = <<>>
     /\ waiting' = [c \in Callers |-> 0]
     /\ emitted' = <<>>
     /\ settled' = {}
     /\ accountCalls' = << <<StoreListener, replayed>> >>
     /\ friendEmitted' = <<>>
     /\ lastOp' = Op("construct", replayed)
     /\ UNCHANGED <<notStore, accountListeners, currentAccountId, now>>

\* subscribeActiveAccount(listener): the listener is called with the current id
SubscribeActiveAccount(l) ==
  /\ accountListeners' = IF \E i \in 1..Len(accountListeners) : accountListeners[i] = l
                           THEN accountListeners ELSE Append(accountListeners, l)
  /\ accountCalls' = << <<l, currentAccountId>> >>
  /\ friendEmitted' = <<>>
  /\ emitted' = <<>>
  /\ settled' = {}
  /\ lastOp' = Op("subscribeActiveAccount", currentAccountId)
  /\ UNCHANGED <<notStore, currentAccountId, activeAccountId, states, listeners,
                 now, fetches, waiting>>

\* the disposer subscribeActiveAccount() returned
UnsubscribeActiveAccount(l) ==
  /\ \E i \in 1..Len(accountListeners) : accountListeners[i] = l
  /\ accountListeners' = SelectSeq(accountListeners, LAMBDA x : x # l)
  /\ accountCalls' = <<>> /\ friendEmitted' = <<>>
  /\ emitted' = <<>>
  /\ settled' = {}
  /\ lastOp' = Op("unsubscribeActiveAccount", NULL)
  /\ UNCHANGED <<notStore, currentAccountId, activeAccountId, states, listeners,
                 now, fetches, waiting>>

\* what getSnapshot(scopeId) returns
snapshot(st, scopeId) == getState(st, scopeId)[scopeKey(scopeId)].cache

\* getSnapshot(scopeId = activeAccountId)
GetSnapshot(scopeOpt) ==
  LET scopeId == IF scopeOpt \in {ABSENT, UNDEFINED} THEN activeAccountId ELSE scopeOpt
  IN /\ states' = getState(states, scopeId)
     /\ emitted' = <<>>
     /\ settled' = {}
     /\ lastOp' = Op("getSnapshot", scopeId)
     /\ accountCalls' = <<>> /\ friendEmitted' = <<>>
     /\ UNCHANGED <<notStore, accountListeners, currentAccountId,
                    activeAccountId, listeners, now,
                    fetches, waiting>>

\* mutant: the replay goes through emit(), to every listener
SubscribeEmitAll(l) ==
  /\ listeners' = IF \E i \in 1..Len(listeners) : listeners[i] = l
                    THEN listeners ELSE Append(listeners, l)
  /\ states' = getState(states, activeAccountId)
  /\ emitted' = emit(listeners', states'[scopeKey(activeAccountId)].cache)
  /\ settled' = {}
  /\ lastOp' = Op("subscribe", activeAccountId)
  /\ accountCalls' = <<>> /\ friendEmitted' = <<>>
  /\ UNCHANGED <<notStore, accountListeners, currentAccountId,
                 activeAccountId, now, fetches, waiting>>

\* subscribe(listener): add, then replay the active scope's snapshot
Subscribe(l) ==
  /\ listeners' = IF \E i \in 1..Len(listeners) : listeners[i] = l
                    THEN listeners ELSE Append(listeners, l)
  /\ states' = getState(states, activeAccountId)
  /\ emitted' = << <<l, states'[scopeKey(activeAccountId)].cache>> >>
  /\ settled' = {}
  /\ lastOp' = Op("subscribe", activeAccountId)
  /\ accountCalls' = <<>> /\ friendEmitted' = <<>>
  /\ UNCHANGED <<notStore, accountListeners, currentAccountId,
                 activeAccountId, now, fetches, waiting>>

\* the disposer subscribe() returned
Unsubscribe(l) ==
  /\ \E i \in 1..Len(listeners) : listeners[i] = l
  /\ listeners' = SelectSeq(listeners, LAMBDA x : x # l)
  /\ emitted' = <<>>
  /\ settled' = {}
  /\ lastOp' = Op("unsubscribe", NULL)
  /\ accountCalls' = <<>> /\ friendEmitted' = <<>>
  /\ UNCHANGED <<notStore, accountListeners, currentAccountId,
                 activeAccountId, states, now, fetches, waiting>>

\* mutant: any cached value is returned, whatever its age
isFreshHitAnyAge(state, force, t) == ~force /\ state.cache # NULL

\* if (!force && state.cache && !this.isStale(state)) return state.cache;
isFreshHit(state, force, t) == ~force /\ state.cache # NULL /\ ~isStale(state, t)

\* mutant: ensure() without its in-flight check
hasInflightNever(state) == FALSE

\* if (state.inflight) return state.inflight;
hasInflight(state) == state.inflight # 0

\* the number the next promise chain gets
FreeFetch == CHOOSE f \in 1..MaxFetches : f \notin DOMAIN fetches

\* ensure({force, scopeId}) called by caller c
Ensure(c, force, scopeOpt) ==
  LET target == ensureTarget(scopeOpt, activeAccountId)
      key == scopeKey(target)
      st1 == getState(states, target)
      state == st1[key]
  IN /\ waiting[c] = 0
     /\ emitted' = <<>>
     /\ accountCalls' = <<>> /\ friendEmitted' = <<>>
     /\ UNCHANGED <<notStore, accountListeners, currentAccountId,
                    activeAccountId, listeners, now>>
     /\ IF isFreshHit(state, force, now)
          THEN /\ settled' = {Settle(c, 0, "fulfilled", state.cache)}
               /\ states' = st1
               /\ lastOp' = Op("ensureHit", target)
               /\ UNCHANGED <<fetches, waiting>>
          ELSE IF hasInflight(state)
            THEN /\ waiting' = [waiting EXCEPT ![c] = state.inflight]
                 /\ states' = st1
                 /\ settled' = {}
                 /\ lastOp' = Op("ensureJoin", target)
                 /\ UNCHANGED fetches
            ELSE /\ \E f \in 1..MaxFetches : f \notin DOMAIN fetches
                 /\ fetches' = [f \in DOMAIN fetches \cup {FreeFetch} |->
                      IF f = FreeFetch
                        THEN [scope |-> target, phase |-> "loading", res |-> NULL]
                        ELSE fetches[f]]
                 /\ states' = [st1 EXCEPT ![key].inflight = FreeFetch]
                 /\ waiting' = [waiting EXCEPT ![c] = FreeFetch]
                 /\ settled' = {}
                 /\ lastOp' = Op("ensureLoad", target)

\* refresh(): ensure({ force: true })
Refresh(c) == Ensure(c, TRUE, ABSENT)

\* set(value, {stale, scopeId})
Set(value, stale, scopeOpt) ==
  /\ states' = setStates(states, value, stale, scopeOpt, activeAccountId, now)
  /\ emitted' = setEmits(listeners, value, scopeOpt, activeAccountId)
  /\ settled' = {}
  /\ lastOp' = Op("set", orActive(scopeOpt, activeAccountId))
  /\ accountCalls' = <<>> /\ friendEmitted' = <<>>
  /\ UNCHANGED <<notStore, accountListeners, currentAccountId,
                 activeAccountId, listeners, now, fetches, waiting>>

\* clear({scopeId}): set(null, {scopeId: options.scopeId ?? active})
Clear(scopeOpt) ==
  LET scopeId == orActive(scopeOpt, activeAccountId)
  IN /\ states' = setStates(states, NULL, FALSE, scopeId, activeAccountId, now)
     /\ emitted' = setEmits(listeners, NULL, scopeId, activeAccountId)
     /\ settled' = {}
     /\ lastOp' = Op("clear", scopeId)
     /\ accountCalls' = <<>> /\ friendEmitted' = <<>>
     /\ UNCHANGED <<notStore, accountListeners, currentAccountId,
                    activeAccountId, listeners, now, fetches, waiting>>

\* mutant: markStale() leaves updatedAt as it is
MarkStaleKeepsTime(scopeOpt) ==
  LET scopeId == orActive(scopeOpt, activeAccountId)
  IN /\ states' = getState(states, scopeId)
     /\ emitted' = <<>>
     /\ settled' = {}
     /\ lastOp' = Op("markStale", scopeId)
     /\ accountCalls' = <<>> /\ friendEmitted' = <<>>
     /\ UNCHANGED <<notStore, accountListeners, currentAccountId,
                    activeAccountId, listeners, now, fetches, waiting>>

\* markStale({scopeId})
MarkStale(scopeOpt) ==
  LET scopeId == orActive(scopeOpt, activeAccountId)
      st1 == getState(states, scopeId)
      key == scopeKey(scopeId)
  IN /\ states' = IF st1[key].cache # NULL
                    THEN [st1 EXCEPT ![key].updatedAt = 0] ELSE st1
     /\ emitted' = <<>>
     /\ settled' = {}
     /\ lastOp' = Op("markStale", scopeId)
     /\ accountCalls' = <<>> /\ friendEmitted' = <<>>
     /\ UNCHANGED <<notStore, accountListeners, currentAccountId,
                    activeAccountId, listeners, now, fetches, waiting>>

\* load() fulfils with value and the chain's first callback runs:
\* .then((value) => { this.set(value, { scopeId: targetScopeId }); return value; })
FetchThen(f, value) ==
  /\ f \in DOMAIN fetches
  /\ fetches[f].phase = "loading"
  /\ states' = setStates(states, value, FALSE, fetches[f].scope, activeAccountId, now)
  /\ emitted' = setEmits(listeners, value, fetches[f].scope, activeAccountId)
  /\ fetches' = [fetches EXCEPT ![f] = [@ EXCEPT !.phase = "stored", !.res = value]]
  /\ settled' = {}
  /\ lastOp' = Op("fetchThen", fetches[f].scope)
  /\ accountCalls' = <<>> /\ friendEmitted' = <<>>
  /\ UNCHANGED <<notStore, accountListeners, currentAccountId,
                 activeAccountId, listeners, now, waiting>>

\* mutant: the slot is cleared in .then instead of .finally, so a rejected
\* chain settles but leaves its promise in the slot
finallyStepThenOnly(f, status, res) ==
  /\ states' = IF status = "fulfilled"
                 THEN [states EXCEPT ![scopeKey(fetches[f].scope)].inflight = 0]
                 ELSE states
  /\ fetches' = [g \in DOMAIN fetches \ {f} |-> fetches[g]]
  /\ settled' = {Settle(c, f, status, res) : c \in {d \in Callers : waiting[d] = f}}
  /\ waiting' = [c \in Callers |-> IF waiting[c] = f THEN 0 ELSE waiting[c]]
  /\ emitted' = <<>>
  /\ accountCalls' = <<>> /\ friendEmitted' = <<>>
  /\ UNCHANGED <<notStore, accountListeners, currentAccountId,
                 activeAccountId, listeners, now>>

\* the chain's last callback, .finally(() => { state.inflight = null; }), after
\* which the chain settles with `status` and with it every promise ensure()
\* returned for it
finallyStep(f, status, res) ==
  /\ states' = [states EXCEPT ![scopeKey(fetches[f].scope)].inflight = 0]
  /\ fetches' = [g \in DOMAIN fetches \ {f} |-> fetches[g]]
  /\ settled' = {Settle(c, f, status, res) : c \in {d \in Callers : waiting[d] = f}}
  /\ waiting' = [c \in Callers |-> IF waiting[c] = f THEN 0 ELSE waiting[c]]
  /\ emitted' = <<>>
  /\ accountCalls' = <<>> /\ friendEmitted' = <<>>
  /\ UNCHANGED <<notStore, accountListeners, currentAccountId,
                 activeAccountId, listeners, now>>

\* after .then stored the value: .finally runs and the chain fulfils
FetchFinally(f) ==
  /\ f \in DOMAIN fetches
  /\ fetches[f].phase = "stored"
  /\ finallyStep(f, "fulfilled", fetches[f].res)
  /\ lastOp' = Op("fetchDone", fetches[f].scope)

\* load() rejects with error: .then is skipped, .finally runs, the chain rejects
FetchReject(f, error) ==
  /\ f \in DOMAIN fetches
  /\ fetches[f].phase = "loading"
  /\ finallyStep(f, "rejected", error)
  /\ lastOp' = Op("fetchFailed", fetches[f].scope)

\* --------------------------- user-store.ts, the friends operations
\* a step of the friends sub-cache calls nothing of the user cache: no
\* subscriber, no account listener, no promise settles, no field changes
storeQuiet ==
  /\ emitted' = <<>>
  /\ settled' = {}
  /\ accountCalls' = <<>>
  /\ UNCHANGED <<currentAccountId, activeAccountId, states, listeners, now,
                 fetches, waiting, lastOp, accountListeners>>

\* the writes of setFriends(): the map it leaves
setFriendsStates(st, value, stale, scopeOpt, active, t) ==
  LET scopeId == orActive(scopeOpt, active)
      st1 == getOrCreateFriendsState(st, scopeId)
  IN [st1 EXCEPT ![friendsScopeKey(scopeId)] =
        [@ EXCEPT !.cache = value,
                  !.updatedAt = IF value # NULL /\ ~stale THEN t ELSE 0]]

\* the listener calls of setFriends() and clearFriends()
setFriendsEmits(ls, value, scopeOpt, active) ==
  IF friendsScopeKey(orActive(scopeOpt, active)) = friendsScopeKey(active)
    THEN emitFriends(ls, value) ELSE <<>>

\* subscribeFriends(listener)
SubscribeFriends(l) ==
  /\ friendListeners' = IF \E i \in 1..Len(friendListeners) : friendListeners[i] = l
                          THEN friendListeners ELSE Append(friendListeners, l)
  /\ friendEmitted' = << <<l, getFriendsSnapshot(friendStates, activeAccountId)>> >>
  /\ friendLast' = Op("subscribeFriends", activeAccountId)
  /\ UNCHANGED <<friendStates, friendFetches>>
  /\ storeQuiet /\ UNCHANGED <<registryVars, alertVars, otherStores>>

\* the number the next friends promise chain gets
FreeFriendFetch ==
  CHOOSE f \in 1..MaxFriendFetches : f \notin DOMAIN friendFetches

\* ensureFriends({force, scopeId})
EnsureFriends(force, scopeOpt) ==
  LET target == ensureTarget(scopeOpt, activeAccountId)
      key == friendsScopeKey(target)
      st1 == getOrCreateFriendsState(friendStates, target)
      state == st1[key]
  IN /\ friendEmitted' = <<>>
     /\ UNCHANGED friendListeners
     /\ storeQuiet /\ UNCHANGED <<registryVars, alertVars, otherStores>>
     /\ IF ~force /\ state.cache # NULL /\ ~isFriendsStale(state, now)
          THEN /\ friendStates' = st1
               /\ friendLast' = Op("ensureHit", target)
               /\ UNCHANGED friendFetches
          ELSE IF state.inflight # 0
            THEN /\ friendStates' = st1
                 /\ friendLast' = Op("ensureJoin", target)
                 /\ UNCHANGED friendFetches
            ELSE /\ \E f \in 1..MaxFriendFetches : f \notin DOMAIN friendFetches
                 /\ friendFetches' = [f \in DOMAIN friendFetches \cup {FreeFriendFetch} |->
                      IF f = FreeFriendFetch
                        THEN [scope |-> target, phase |-> "loading", res |-> NULL]
                        ELSE friendFetches[f]]
                 /\ friendStates' = [st1 EXCEPT ![key].inflight = FreeFriendFetch]
                 /\ friendLast' = Op("ensureLoad", target)

\* refreshFriends(options): ensureFriends({ ...options, force: true })
RefreshFriends(scopeOpt) == EnsureFriends(TRUE, scopeOpt)

\* setFriends(value, {stale, scopeId})
SetFriends(value, stale, scopeOpt) ==
  /\ friendStates' = setFriendsStates(friendStates, value, stale, scopeOpt,
                                      activeAccountId, now)
  /\ friendEmitted' = setFriendsEmits(friendListeners, value, scopeOpt, activeAccountId)
  /\ friendLast' = Op("setFriends", orActive(scopeOpt, activeAccountId))
  /\ UNCHANGED <<friendListeners, friendFetches>>
  /\ storeQuiet /\ UNCHANGED <<registryVars, alertVars, otherStores>>

\* clearFriends({scopeId}): an existing entry loses value, time and promise
ClearFriends(scopeOpt) ==
  LET scopeId == orActive(scopeOpt, activeAccountId)
      key == friendsScopeKey(scopeId)
      st1 == getOrCreateFriendsState(friendStates, scopeId)
  IN /\ friendStates' = [st1 EXCEPT ![key] =
                           [cache |-> NULL, inflight |-> 0, updatedAt |-> 0]]
     /\ friendEmitted' = setFriendsEmits(friendListeners, NULL, scopeOpt, activeAccountId)
     /\ friendLast' = Op("clearFriends", scopeId)
     /\ UNCHANGED <<friendListeners, friendFetches>>
     /\ storeQuiet /\ UNCHANGED <<registryVars, alertVars, otherStores>>

\* markFriendsStale({scopeId}): no entry is created
MarkFriendsStale(scopeOpt) ==
  LET scopeId == orActive(scopeOpt, activeAccountId)
      key == friendsScopeKey(scopeId)
  IN /\ friendStates' = IF key \in DOMAIN friendStates /\ friendStates[key].cache # NULL
                          THEN [friendStates EXCEPT ![key].updatedAt = 0]
                          ELSE friendStates
     /\ friendEmitted' = <<>>
     /\ friendLast' = Op("markFriendsStale", scopeId)
     /\ UNCHANGED <<friendListeners, friendFetches>>
     /\ storeQuiet /\ UNCHANGED <<registryVars, alertVars, otherStores>>

\* getOnlineFriends() fulfils and the chain's first callback runs:
\* .then((friends) => { this.setFriends(friends, { scopeId: targetScopeId }); ... })
FriendsFetchThen(f, value) ==
  /\ f \in DOMAIN friendFetches
  /\ friendFetches[f].phase = "loading"
  /\ friendStates' = setFriendsStates(friendStates, value, FALSE, friendFetches[f].scope,
                                      activeAccountId, now)
  /\ friendEmitted' = setFriendsEmits(friendListeners, value, friendFetches[f].scope,
                                      activeAccountId)
  /\ friendFetches' = [friendFetches EXCEPT ![f] =
                         [@ EXCEPT !.phase = "stored", !.res = value]]
  /\ friendLast' = Op("fetchThen", friendFetches[f].scope)
  /\ UNCHANGED friendListeners
  /\ storeQuiet /\ UNCHANGED <<registryVars, alertVars, otherStores>>

\* .finally(() => { state.inflight = null; }) on the entry ensureFriends() read
FriendsFetchFinally(f) ==
  /\ f \in DOMAIN friendFetches
  /\ friendFetches[f].phase = "stored"
  /\ friendStates' = [friendStates EXCEPT
                        ![friendsScopeKey(friendFetches[f].scope)].inflight = 0]
  /\ friendFetches' = [g \in DOMAIN friendFetches \ {f} |-> friendFetches[g]]
  /\ friendEmitted' = <<>>
  /\ friendLast' = Op("fetchDone", friendFetches[f].scope)
  /\ UNCHANGED friendListeners
  /\ storeQuiet /\ UNCHANGED <<registryVars, alertVars, otherStores>>

\* getOnlineFriends() rejects: .then is skipped, .finally runs
FriendsFetchReject(f) ==
  /\ f \in DOMAIN friendFetches
  /\ friendFetches[f].phase = "loading"
  /\ friendStates' = [friendStates EXCEPT
                        ![friendsScopeKey(friendFetches[f].scope)].inflight = 0]
  /\ friendFetches' = [g \in DOMAIN friendFetches \ {f} |-> friendFetches[g]]
  /\ friendEmitted' = <<>>
  /\ friendLast' = Op("fetchFailed", friendFetches[f].scope)
  /\ UNCHANGED friendListeners
  /\ storeQuiet /\ UNCHANGED <<registryVars, alertVars, otherStores>>

\* ------------------------------------- user-store.ts, the user cache
\* a User is known by its id: the cached value of the user store is the id
\* of the user it holds
Users == Accounts

\* the scope UserStore.set() passes on: options.scopeId unless it is
\* undefined, else value.id, else the current scope
userSetScope(value, scopeOpt, active) ==
  IF scopeOpt \notin {ABSENT, UNDEFINED} THEN scopeOpt
  ELSE IF value # NULL THEN value ELSE active

\* UserStore.set(value, {stale, scopeId}): setActiveAccountId(scopeId) when no
\* scope was given and the user is the one of the current scope, then
\* super.set(value, { ...options, scopeId })
UserSet(value, stale, scopeOpt) ==
  LET scopeId == userSetScope(value, scopeOpt, activeAccountId)
      switches == /\ scopeOpt \in {ABSENT, UNDEFINED}
                  /\ value # NULL
                  /\ scopeId = activeAccountId
                  /\ ~isCurrentAccount(currentAccountId, scopeId)
      st1 == IF switches THEN getState(states, scopeId) ELSE states
  IN /\ currentAccountId' = IF switches THEN scopeId ELSE currentAccountId
     /\ accountCalls' = IF switches THEN accountEmit(accountListeners, scopeId) ELSE <<>>
     /\ friendEmitted' =
          IF switches
            THEN emitFriends(friendListeners,
                   getFriendsSnapshot(friendStates,
                                      friendsListenerScope(activeAccountId, scopeId)))
            ELSE <<>>
     /\ states' = setStates(st1, value, stale, scopeId, activeAccountId, now)
     /\ emitted' = (IF switches THEN emit(listeners, st1[scopeKey(scopeId)].cache)
                                ELSE <<>>)
                   \o setEmits(listeners, value, scopeId, activeAccountId)
     /\ settled' = {}
     /\ lastOp' = Op("set", orActive(scopeId, activeAccountId))
     /\ UNCHANGED <<notStore, accountListeners, activeAccountId, listeners, now,
                    fetches, waiting>>

\* getCurrentUser() fulfils with the user of the backend session: load() calls
\* setActiveAccountId(user.id) when the scope it was called for is another,
\* and the chain's .then calls set(user, { scopeId: targetScopeId })
UserFetchThen(f, user) ==
  /\ f \in DOMAIN fetches
  /\ fetches[f].phase = "loading"
  /\ LET target == fetches[f].scope
         switches == target # user /\ ~isCurrentAccount(currentAccountId, user)
         active1 == IF switches THEN user ELSE activeAccountId
         st1 == IF switches THEN getState(states, user) ELSE states
     IN /\ currentAccountId' = IF switches THEN user ELSE currentAccountId
        /\ activeAccountId' = active1
        /\ accountCalls' = IF switches THEN accountEmit(accountListeners, user) ELSE <<>>
        /\ friendEmitted' =
             IF switches
               THEN emitFriends(friendListeners,
                      getFriendsSnapshot(friendStates,
                                         friendsListenerScope(activeAccountId, user)))
               ELSE <<>>
        /\ states' = setStates(st1, user, FALSE, target, active1, now)
        /\ emitted' = (IF switches THEN emit(listeners, st1[scopeKey(user)].cache)
                                   ELSE <<>>)
                      \o setEmits(listeners, user, target, active1)
        /\ lastOp' = Op("fetchThen", target)
  /\ fetches' = [fetches EXCEPT ![f] = [@ EXCEPT !.phase = "stored", !.res = user]]
  /\ settled' = {}
  /\ UNCHANGED <<notStore, accountListeners, listeners, now, waiting>>

\* ------------------------------------------------- developer-mode-store.ts
\* the boolean values of the developer-mode flag
DevValues == {"true", "false"}

\* a caller that waits for no promise of the store
DevIdle == [op |-> "none", before |-> NULL]

DevInit ==
  /\ devCache = NULL
  /\ devInflight = 0
  /\ devFetch = [phase |-> "none", res |-> NULL]
  /\ devListeners = <<>>
  /\ devWaiting = [c \in Callers |-> DevIdle]
  /\ devToggles = {}
  /\ devEmitted = <<>>
  /\ devSettled = {}
  /\ devLast = Op("init", NULL)
  /\ devBackend = "false"
  /\ devToggled = NULL

\* DeveloperModeStore.emit
devEmit(ls, value) == [i \in 1..Len(ls) |-> <<ls[i], value>>]

\* subscribe(listener): listener(this.cache ?? false)
DevSubscribe(l) ==
  /\ devListeners' = IF \E i \in 1..Len(devListeners) : devListeners[i] = l
                       THEN devListeners ELSE Append(devListeners, l)
  /\ devEmitted' = << <<l, IF devCache = NULL THEN "false" ELSE devCache>> >>
  /\ devSettled' = {}
  /\ devLast' = Op("subscribe", NULL)
  /\ UNCHANGED <<devCache, devInflight, devFetch, devWaiting, devToggles,
                 devBackend, devToggled>>
  /\ UNCHANGED <<storeVars, registryVars, alertVars, friendVars, statusVars, accVars>>

\* the body of ensure() called by caller c for operation `name`, on the cache
\* value `cache`; `before` is what getSnapshot() returned before the call
devEnsure(c, name, cache, before) ==
  /\ devWaiting[c] = DevIdle
  /\ devEmitted' = <<>>
  /\ devCache' = cache
  /\ devToggled' = IF name = "refresh" THEN NULL ELSE devToggled
  /\ UNCHANGED <<devListeners, devToggles, devBackend>>
  /\ UNCHANGED <<storeVars, registryVars, alertVars, friendVars, statusVars, accVars>>
  /\ IF cache # NULL
       THEN /\ devSettled' = {Settle(c, 0, "fulfilled", cache)}
            /\ devLast' = Op(name, "hit")
            /\ UNCHANGED <<devInflight, devFetch, devWaiting>>
       ELSE /\ devSettled' = {}
            /\ devWaiting' = [devWaiting EXCEPT ![c] = [op |-> name, before |-> before]]
            /\ IF devInflight # 0
                 THEN /\ devLast' = Op(name, "join")
                      /\ UNCHANGED <<devInflight, devFetch>>
                 ELSE /\ devLast' = Op(name, "load")
                      /\ devInflight' = 1
                      /\ devFetch' = [phase |-> "loading", res |-> NULL]

\* ensure()
DevEnsure(c) == devEnsure(c, "ensure", devCache, devCache)

\* refresh(): this.cache = null; return this.ensure();
DevRefresh(c) == devEnsure(c, "refresh", NULL, devCache)

\* set(value)
DevSet(value) ==
  /\ devCache' = value
  /\ devEmitted' = devEmit(devListeners, value)
  /\ devSettled' = {}
  /\ devLast' = Op("set", value)
  /\ devToggled' = NULL
  /\ UNCHANGED <<devInflight, devFetch, devListeners, devWaiting, devToggles,
                 devBackend>>
  /\ UNCHANGED <<storeVars, registryVars, alertVars, friendVars, statusVars, accVars>>

\* toggle() up to its await: newValue = !this.cache, the backend write starts
DevToggle ==
  /\ devToggles' = devToggles \cup {IF devCache = "true" THEN "false" ELSE "true"}
  /\ devEmitted' = <<>>
  /\ devSettled' = {}
  /\ devLast' = Op("toggle", NULL)
  /\ devToggled' = NULL
  /\ UNCHANGED <<devCache, devInflight, devFetch, devListeners, devWaiting,
                 devBackend>>
  /\ UNCHANGED <<storeVars, registryVars, alertVars, friendVars, statusVars, accVars>>

\* toggle() after its await: the backend has persisted newValue and the write
\* succeeded, this.set(newValue)
DevToggleDone(value) ==
  /\ value \in devToggles
  /\ devToggles' = devToggles \ {value}
  /\ devCache' = value
  /\ devEmitted' = devEmit(devListeners, value)
  /\ devSettled' = {}
  /\ devLast' = Op("toggleDone", value)
  /\ devBackend' = value
  /\ devToggled' = value
  /\ UNCHANGED <<devInflight, devFetch, devListeners, devWaiting>>
  /\ UNCHANGED <<storeVars, registryVars, alertVars, friendVars, statusVars, accVars>>

\* toggle() after its await: the write failed, toggle() rejects
DevToggleReject(value) ==
  /\ value \in devToggles
  /\ devToggles' = devToggles \ {value}
  /\ devEmitted' = <<>>
  /\ devSettled' = {}
  /\ devLast' = Op("toggleFailed", value)
  /\ UNCHANGED <<devCache, devInflight, devFetch, devListeners, devWaiting,
                 devBackend, devToggled>>
  /\ UNCHANGED <<storeVars, registryVars, alertVars, friendVars, statusVars, accVars>>

\* the backend serves the get_developer_mode command: it reads the flag it
\* has persisted; the answer reaches the store in a later step
DevBackendRead ==
  /\ devFetch.phase = "loading"
  /\ devFetch' = [phase |-> "served", res |-> devBackend]
  /\ devEmitted' = <<>>
  /\ devSettled' = {}
  /\ devLast' = Op("served", devBackend)
  /\ UNCHANGED <<devCache, devInflight, devListeners, devWaiting, devToggles,
                 devBackend, devToggled>>
  /\ UNCHANGED <<storeVars, registryVars, alertVars, friendVars, statusVars, accVars>>

\* getDeveloperMode() fulfils: .then((value) => { this.set(value); return value; })
DevFetchThen(value) ==
  /\ devFetch.phase = "served"
  /\ value = devFetch.res
  /\ devFetch' = [phase |-> "stored", res |-> value]
  /\ devCache' = value
  /\ devEmitted' = devEmit(devListeners, value)
  /\ devSettled' = {}
  /\ devLast' = Op("fetchThen", value)
  /\ UNCHANGED <<devInflight, devListeners, devWaiting, devToggles,
                 devBackend, devToggled>>
  /\ UNCHANGED <<storeVars, registryVars, alertVars, friendVars, statusVars, accVars>>

\* .finally(() => { this.inflight = null; }), then the chain settles and with
\* it every promise ensure() and refresh() returned for it
devFinally(status, res) ==
  /\ devInflight' = 0
  /\ devFetch' = [phase |-> "none", res |-> NULL]
  /\ devSettled' = {Settle(c, 1, status, res) : c \in {d \in Callers : devWaiting[d] # DevIdle}}
  /\ devWaiting' = [c \in Callers |-> DevIdle]
  /\ devEmitted' = <<>>
  /\ UNCHANGED <<devCache, devListeners, devToggles, devBackend, devToggled>>
  /\ UNCHANGED <<storeVars, registryVars, alertVars, friendVars, statusVars, accVars>>

DevFetchFinally ==
  /\ devFetch.phase = "stored"
  /\ devFinally("fulfilled", devFetch.res)
  /\ devLast' = Op("fetchDone", devFetch.res)

\* getDeveloperMode() rejects with error
DevFetchReject(error) ==
  /\ devFetch.phase = "loading"
  /\ devFinally("rejected", error)
  /\ devLast' = Op("fetchFailed", error)

\* -------------------------------------------------- vrchat-status-store.ts
\* cache.status stands for the three fields a successful fetch writes
\* together and clear() resets together: status, statusPageUrl, lastUpdated.
\* StatusIndicator values the backend reports
Indicators == {"none", "minor", "major", "critical"}

StatusSnapshot == [status |-> statusStatus, isLoading |-> statusLoading,
                   error |-> statusError]

StatusInit ==
  /\ statusStatus = NULL
  /\ statusLoading = FALSE
  /\ statusError = NULL
  /\ statusAlertId = 0
  /\ statusPending = 0
  /\ statusPolling = 0
  /\ statusTimers = {}
  /\ statusListeners = <<>>
  /\ statusEmitted = <<>>
  /\ statusCreated = {}
  /\ statusLast = Op("init", NULL)
  /\ statusSettled = {}

\* updateState(partial): merge into the cache, emit the new snapshot
updateState(status, isLoading, error) ==
  /\ statusStatus' = status
  /\ statusLoading' = isLoading
  /\ statusError' = error
  /\ statusEmitted' = [i \in 1..Len(statusListeners) |->
                         <<statusListeners[i],
                           [status |-> status, isLoading |-> isLoading, error |-> error]>>]

\* subscribe(listener)
StatusSubscribe(l) ==
  /\ statusListeners' = IF \E i \in 1..Len(statusListeners) : statusListeners[i] = l
                          THEN statusListeners ELSE Append(statusListeners, l)
  /\ statusEmitted' = << <<l, StatusSnapshot>> >>
  /\ statusLast' = Op("subscribe", NULL)
  /\ statusSettled' = {}
  /\ UNCHANGED <<statusStatus, statusLoading, statusError, statusAlertId,
                 statusPending, statusPolling, statusTimers, statusCreated>>
  /\ UNCHANGED <<storeVars, registryVars, alertVars, friendVars, devVars, accVars>>

\* fetchStatus() up to its await: updateState({ isLoading: true, error: null }),
\* then commands.getVrchatStatus() is called
fetchStatusCall ==
  /\ statusPending < MaxStatusFetches
  /\ statusPending' = statusPending + 1
  /\ updateState(statusStatus, TRUE, NULL)
  /\ UNCHANGED <<statusAlertId, statusListeners, statusCreated>>
  /\ UNCHANGED <<storeVars, registryVars, alertVars, friendVars, devVars, accVars>>

\* fetchStatus() called by hand
FetchStatus ==
  /\ fetchStatusCall
  /\ statusLast' = Op("fetchStatus", NULL)
  /\ statusSettled' = {}
  /\ UNCHANGED <<statusPolling, statusTimers>>

\* mutant: clearInterval() leaves the timer running
clearIntervalNever(timers, id) == timers

\* clearInterval(id)
clearInterval(timers, id) == timers \ {id}

\* window.setInterval(): the id of the new timer, one that no running timer
\* has
setInterval(timers) ==
  CHOOSE n \in 1..(Cardinality(timers) + 1) :
    n \notin timers /\ \A m \in 1..(n - 1) : m \in timers

\* startPolling(): fetchStatus(), then the interval timer is (re)started
StartPolling ==
  /\ fetchStatusCall
  /\ LET cleared == IF statusPolling # 0
                      THEN clearInterval(statusTimers, statusPolling)
                      ELSE statusTimers
     IN /\ statusPolling' = setInterval(cleared)
        /\ statusTimers' = cleared \cup {setInterval(cleared)}
  /\ statusLast' = Op("startPolling", NULL)
  /\ statusSettled' = {}

\* an interval timer that is running fires: fetchStatus()
PollTick ==
  /\ statusTimers # {}
  /\ fetchStatusCall
  /\ statusLast' = Op("pollTick", NULL)
  /\ statusSettled' = {}
  /\ UNCHANGED <<statusPolling, statusTimers>>

\* stopPolling()
StopPolling ==
  /\ IF statusPolling # 0
       THEN /\ statusTimers' = clearInterval(statusTimers, statusPolling)
            /\ statusPolling' = 0
       ELSE UNCHANGED <<statusPolling, statusTimers>>
  /\ statusEmitted' = <<>>
  /\ statusLast' = Op("stopPolling", NULL)
  /\ statusSettled' = {}
  /\ UNCHANGED <<statusStatus, statusLoading, statusError, statusAlertId,
                 statusPending, statusListeners, statusCreated>>
  /\ UNCHANGED <<storeVars, registryVars, alertVars, friendVars, devVars, accVars>>

\* mutant: a healthy status is treated like an incident
isHealthyNever(status) == FALSE

\* if (!status || status.indicator === "none")
isHealthy(status) == status = NULL \/ status = "none"

\* the AlertVariant syncToAlertStore() maps the indicator to
variantOf(indicator) ==
  IF indicator = "critical" THEN "critical"
  ELSE IF indicator = "major" THEN "error"
  ELSE IF indicator = "minor" THEN "warning" ELSE "info"

\* syncToAlertStore() for the status just stored
syncToAlertStore(status) ==
  IF isHealthy(status)
    THEN IF statusAlertId # 0
           THEN /\ removeAlertCall(statusAlertId)
                /\ statusAlertId' = 0
                /\ UNCHANGED statusCreated
           ELSE UNCHANGED <<alertVars, statusAlertId, statusCreated>>
    ELSE IF statusAlertId # 0
           THEN /\ updateAlertCall(statusAlertId, {"variant"}, variantOf(status), FALSE)
                /\ UNCHANGED <<statusAlertId, statusCreated>>
           ELSE /\ addAlertCall(variantOf(status), FALSE)
                /\ statusAlertId' = alertIds + 1
                /\ statusCreated' = statusCreated \cup {alertIds + 1}

\* fetchStatus() after its await, result.status === "ok"
FetchStatusOk(indicator) ==
  /\ statusPending > 0
  /\ statusPending' = statusPending - 1
  /\ updateState(indicator, FALSE, NULL)
  /\ syncToAlertStore(indicator)
  /\ statusLast' = Op("fetchOk", indicator)
  /\ statusSettled' = {"fulfilled"}
  /\ UNCHANGED <<statusPolling, statusTimers, statusListeners>>
  /\ UNCHANGED <<storeVars, registryVars, friendVars, devVars, accVars>>

\* mutant: the failure is passed on to the caller and the status is dropped
FetchStatusErrorRejects(error) ==
  /\ statusPending > 0
  /\ statusPending' = statusPending - 1
  /\ updateState(NULL, FALSE, error)
  /\ statusLast' = Op("fetchError", error)
  /\ statusSettled' = {"rejected"}
  /\ UNCHANGED <<statusAlertId, statusPolling, statusTimers, statusListeners,
                 statusCreated>>
  /\ UNCHANGED <<storeVars, registryVars, alertVars, friendVars, devVars, accVars>>

\* fetchStatus() after its await: an error result, or the command threw; the
\* catch block ends the async function normally
FetchStatusError(error) ==
  /\ statusPending > 0
  /\ statusPending' = statusPending - 1
  /\ updateState(statusStatus, FALSE, error)
  /\ statusLast' = Op("fetchError", error)
  /\ statusSettled' = {"fulfilled"}
  /\ UNCHANGED <<statusAlertId, statusPolling, statusTimers, statusListeners,
                 statusCreated>>
  /\ UNCHANGED <<storeVars, registryVars, alertVars, friendVars, devVars, accVars>>

\* mutant: clear() forgets its alert without removing it
StatusClearKeepsAlert ==
  /\ updateState(NULL, FALSE, NULL)
  /\ statusAlertId' = 0
  /\ statusLast' = Op("clear", NULL)
  /\ statusSettled' = {}
  /\ UNCHANGED <<statusPending, statusPolling, statusTimers, statusListeners,
                 statusCreated>>
  /\ UNCHANGED <<storeVars, registryVars, alertVars, friendVars, devVars, accVars>>

\* clear()
StatusClear ==
  /\ updateState(NULL, FALSE, NULL)
  /\ IF statusAlertId # 0
       THEN removeAlertCall(statusAlertId) /\ statusAlertId' = 0
       ELSE UNCHANGED <<alertVars, statusAlertId>>
  /\ statusLast' = Op("clear", NULL)
  /\ statusSettled' = {}
  /\ UNCHANGED <<statusPending, statusPolling, statusTimers, statusListeners,
                 statusCreated>>
  /\ UNCHANGED <<storeVars, registryVars, friendVars, devVars, accVars>>

\* ------------------------------------------------------ accounts-store.ts
\* A list of stored accounts is the set of their user ids; JavaScript null in
\* the place of a list is the set that holds NULL only (no account has that id)
AccNull == {NULL}

\* a caller that waits for no promise of the accounts store
AccIdle == [op |-> "none", user |-> NULL, saveNo |-> 0]

AccNoFetch == [phase |-> "none", res |-> AccNull, issued |-> 0]

AccountsInit ==
  /\ accCache = AccNull
  /\ accUpdatedAt = 0
  /\ accInflight = 0
  /\ accFetch = AccNoFetch
  /\ accListeners = <<>>
  /\ accWaiting = [c \in Callers |-> AccIdle]
  /\ accBackend = {}
  /\ accSaveSeq = 0
  /\ accPending = {}
  /\ accEmitted = <<>>
  /\ accSettled = {}
  /\ accLast = Op("init", NULL)

\* what no accounts-store step touches
accFrame == UNCHANGED <<storeVars, registryVars, alertVars, friendVars, devVars,
                        statusVars>>

\* AccountsStore.emit
accEmit(ls, value) == [i \in 1..Len(ls) |-> <<ls[i], value>>]

\* AccountsStore.isStale
accIsStale == IF accCache = AccNull THEN TRUE ELSE now - accUpdatedAt > StaleTime

\* set(value, options) as part of a step
accSetCall(value, stale) ==
  /\ accCache' = value
  /\ accUpdatedAt' = IF value # AccNull /\ ~stale THEN now ELSE 0
  /\ accEmitted' = accEmit(accListeners, value)

\* subscribe(listener)
AccSubscribe(l) ==
  /\ accListeners' = IF \E i \in 1..Len(accListeners) : accListeners[i] = l
                       THEN accListeners ELSE Append(accListeners, l)
  /\ accEmitted' = << <<l, accCache>> >>
  /\ accSettled' = {}
  /\ accLast' = Op("subscribe", NULL)
  /\ UNCHANGED <<accCache, accUpdatedAt, accInflight, accFetch, accWaiting,
                 accBackend, accSaveSeq, accPending>>
  /\ accFrame

\* the body of ensure(options) run for caller c, who then waits as `waits`
accEnsureCall(c, force, waits) ==
  /\ accEmitted' = <<>>
  /\ UNCHANGED <<accCache, accUpdatedAt, accListeners>>
  /\ IF ~force /\ accCache # AccNull /\ ~accIsStale
       THEN /\ accSettled' = {Settle(c, 0, "fulfilled", accCache)}
            /\ accWaiting' = [accWaiting EXCEPT ![c] = AccIdle]
            /\ UNCHANGED <<accInflight, accFetch>>
       ELSE /\ accSettled' = {}
            /\ accWaiting' = [accWaiting EXCEPT ![c] = waits]
            /\ IF accInflight # 0
                 THEN UNCHANGED <<accInflight, accFetch>>
                 ELSE /\ accInflight' = 1
                      /\ accFetch' = [phase |-> "loading", res |-> AccNull,
                                      issued |-> accSaveSeq]

\* ensure(options)
AccEnsure(c, force) ==
  /\ accWaiting[c] = AccIdle
  /\ accEnsureCall(c, force, [op |-> "ensure", user |-> NULL, saveNo |-> 0])
  /\ accLast' = Op("ensure", NULL)
  /\ UNCHANGED <<accBackend, accSaveSeq, accPending>>
  /\ accFrame

\* refresh(): this.ensure({ force: true })
AccRefresh(c) ==
  /\ accWaiting[c] = AccIdle
  /\ accEnsureCall(c, TRUE, [op |-> "refresh", user |-> NULL, saveNo |-> 0])
  /\ accLast' = Op("refresh", NULL)
  /\ UNCHANGED <<accBackend, accSaveSeq, accPending>>
  /\ accFrame

\* set(value, options)
AccSet(value, stale) ==
  /\ accSetCall(value, stale)
  /\ accSettled' = {}
  /\ accLast' = Op("set", NULL)
  /\ UNCHANGED <<accInflight, accFetch, accListeners, accWaiting, accBackend,
                 accSaveSeq, accPending>>
  /\ accFrame

\* clear(): this.set(null)
AccClear ==
  /\ accSetCall(AccNull, FALSE)
  /\ accSettled' = {}
  /\ accLast' = Op("clear", NULL)
  /\ UNCHANGED <<accInflight, accFetch, accListeners, accWaiting, accBackend,
                 accSaveSeq, accPending>>
  /\ accFrame

\* a step that only moves callers and the backend
accQuiet ==
  /\ accEmitted' = <<>>
  /\ UNCHANGED <<accCache, accUpdatedAt, accListeners>>

\* saveFromUser(user) up to its first await: saveCurrentAccount(user) is sent
SaveFromUser(c, user) ==
  /\ accWaiting[c] = AccIdle
  /\ accSaveSeq + Cardinality({d \in Callers : accWaiting[d].op = "saving"}) < MaxSaves
  /\ accWaiting' = [accWaiting EXCEPT ![c] = [op |-> "saving", user |-> user, saveNo |-> 0]]
  /\ accQuiet
  /\ accSettled' = {}
  /\ accLast' = Op("saveFromUser", user)
  /\ UNCHANGED <<accInflight, accFetch, accBackend, accSaveSeq, accPending>>
  /\ accFrame

\* the backend completes the save_current_account command of caller c
AccBackendSave(c) ==
  /\ accWaiting[c].op = "saving"
  /\ accBackend' = accBackend \cup {accWaiting[c].user}
  /\ accSaveSeq' = accSaveSeq + 1
  /\ accWaiting' = [accWaiting EXCEPT ![c] = [op |-> "persisted", user |-> @.user,
                                              saveNo |-> accSaveSeq + 1]]
  /\ accQuiet
  /\ accSettled' = {}
  /\ accLast' = Op("persisted", accWaiting[c].user)
  /\ UNCHANGED <<accInflight, accFetch, accPending>>
  /\ accFrame

\* saveFromUser(user) after its first await: await this.refresh()
AccSaveDone(c) ==
  /\ accWaiting[c].op = "persisted"
  /\ accEnsureCall(c, TRUE, [accWaiting[c] EXCEPT !.op = "saved"])
  /\ accLast' = Op("saveDone", accWaiting[c].user)
  /\ UNCHANGED <<accBackend, accSaveSeq, accPending>>
  /\ accFrame

\* saveCurrentAccount(user) rejects, and saveFromUser(user) with it
AccSaveFailed(c, error) ==
  /\ accWaiting[c].op = "saving"
  /\ accWaiting' = [accWaiting EXCEPT ![c] = AccIdle]
  /\ accQuiet
  /\ accSettled' = {Settle(c, 0, "rejected", error)}
  /\ accLast' = Op("saveFailed", accWaiting[c].user)
  /\ UNCHANGED <<accInflight, accFetch, accBackend, accSaveSeq, accPending>>
  /\ accFrame

\* removeAccount(userId) and clearAll() up to their await
AccRemoveAccount(userId) ==
  /\ accPending' = accPending \cup {userId}
  /\ accQuiet
  /\ accSettled' = {}
  /\ accLast' = Op("removeAccount", userId)
  /\ UNCHANGED <<accInflight, accFetch, accWaiting, accBackend, accSaveSeq>>
  /\ accFrame

AccClearAll == AccRemoveAccount("all")

\* removeAccount(userId) after its await: the backend has removed the account
AccRemoveDone(userId) ==
  /\ userId \in accPending \cap Accounts
  /\ accPending' = accPending \ {userId}
  /\ accBackend' = accBackend \ {userId}
  /\ IF accCache # AccNull
       THEN accSetCall(accCache \ {userId}, FALSE)
       ELSE accEmitted' = <<>> /\ UNCHANGED <<accCache, accUpdatedAt>>
  /\ accSettled' = {}
  /\ accLast' = Op("removeDone", userId)
  /\ UNCHANGED <<accInflight, accFetch, accListeners, accWaiting, accSaveSeq>>
  /\ accFrame

\* clearAll() after its await: the backend has removed every account
AccClearAllDone ==
  /\ "all" \in accPending
  /\ accPending' = accPending \ {"all"}
  /\ accBackend' = {}
  /\ accSetCall(AccNull, FALSE)
  /\ accSettled' = {}
  /\ accLast' = Op("clearAllDone", NULL)
  /\ UNCHANGED <<accInflight, accFetch, accListeners, accWaiting, accSaveSeq>>
  /\ accFrame

\* the backend command of removeAccount() or clearAll() rejects
AccPendingFailed(what) ==
  /\ what \in accPending
  /\ accPending' = accPending \ {what}
  /\ accQuiet
  /\ accSettled' = {}
  /\ accLast' = Op("backendFailed", what)
  /\ UNCHANGED <<accInflight, accFetch, accWaiting, accBackend, accSaveSeq>>
  /\ accFrame

\* the backend serves the get_all_accounts command
AccBackendRead ==
  /\ accFetch.phase = "loading"
  /\ accFetch' = [accFetch EXCEPT !.phase = "served", !.res = accBackend]
  /\ accQuiet
  /\ accSettled' = {}
  /\ accLast' = Op("served", NULL)
  /\ UNCHANGED <<accInflight, accWaiting, accBackend, accSaveSeq, accPending>>
  /\ accFrame

\* getAllAccounts() fulfils: .then((accounts) => { this.set(accounts); ... })
AccFetchThen ==
  /\ accFetch.phase = "served"
  /\ accFetch' = [accFetch EXCEPT !.phase = "stored"]
  /\ accSetCall(accFetch.res, FALSE)
  /\ accSettled' = {}
  /\ accLast' = Op("fetchThen", NULL)
  /\ UNCHANGED <<accInflight, accListeners, accWaiting, accBackend, accSaveSeq,
                 accPending>>
  /\ accFrame

\* the callers whose promise is the chain of the outstanding read
accJoined == {c \in Callers : accWaiting[c].op \in {"ensure", "refresh", "saved"}}

\* .finally(() => { this.inflight = null; }), then the chain settles and with
\* it every promise that waits for it
accFinally(status, res) ==
  /\ accInflight' = 0
  /\ accFetch' = AccNoFetch
  /\ accSettled' = {Settle(c, 1, status, res) : c \in accJoined}
  /\ accWaiting' = [c \in Callers |-> IF c \in accJoined THEN AccIdle ELSE accWaiting[c]]
  /\ accQuiet
  /\ UNCHANGED <<accBackend, accSaveSeq, accPending>>
  /\ accFrame

AccFetchFinally ==
  /\ accFetch.phase = "stored"
  /\ accFinally("fulfilled", accFetch.res)
  /\ accLast' = Op("fetchDone", NULL)

\* getAllAccounts() rejects with error
AccFetchReject(error) ==
  /\ accFetch.phase = "loading"
  /\ accFinally("rejected", error)
  /\ accLast' = Op("fetchFailed", error)

Init ==
  /\ StoreInit /\ RegistryInit /\ AlertInit /\ FriendsInit
  /\ DevInit /\ StatusInit /\ AccountsInit

vars == <<storeVars, registryVars, alertVars, friendVars, otherStores>>

\* ---------------------------------------------------------- specifications
\* Fetch concurrency: every store operation and every fetch completion, in any
\* order, on the no-account scope and one account.  Date.now() stands still:
\* ensure() reads the clock only through isStale, and set({stale}) and
\* markStale() make entries stale here.
FetchScopes == {NULL, "usr_a"}
FetchOptions == FetchScopes \cup {ABSENT, UNDEFINED}
\* set, clear and markStale read the option with ??, which treats undefined as absent
FetchArgs == FetchScopes \cup {ABSENT}

Next ==
  \/ \E id \in FetchScopes : SetActiveAccountId(id)
  \/ \E l \in {1} : Subscribe(l)
  \/ \E c \in Callers, force \in BOOLEAN, s \in FetchOptions : Ensure(c, force, s)
  \/ \E c \in Callers : Refresh(c)
  \/ \E v \in Values \cup {NULL}, stale \in BOOLEAN, s \in FetchArgs : Set(v, stale, s)
  \/ \E s \in FetchArgs : Clear(s)
  \/ \E s \in FetchArgs : MarkStale(s)
  \/ \E f \in 1..MaxFetches, v \in Values : FetchThen(f, v)
  \/ \E f \in 1..MaxFetches : FetchFinally(f)
  \/ \E f \in 1..MaxFetches, e \in Errors : FetchReject(f, e)

Spec == Init /\ [][Next]_vars

\* Progress of fetches: callers, scope changes, clear() and markStale() in any
\* order, no subscriber, with the scheduling the event loop gives: every load()
\* the backend was asked for settles (the assumption of the liveness claim),
\* and a queued promise callback runs.
FairNext ==
  \/ \E id \in FetchScopes : SetActiveAccountId(id)
  \/ \E c \in Callers, force \in BOOLEAN, s \in FetchOptions : Ensure(c, force, s)
  \/ \E s \in FetchArgs : Clear(s)
  \/ \E s \in FetchArgs : MarkStale(s)
  \/ \E f \in 1..MaxFetches, v \in Values : FetchThen(f, v)
  \/ \E f \in 1..MaxFetches : FetchFinally(f)
  \/ \E f \in 1..MaxFetches, e \in Errors : FetchReject(f, e)

FairSpec ==
  /\ Init /\ [][FairNext]_vars
  /\ \A f \in 1..MaxFetches :
       /\ WF_vars((\E v \in Values : FetchThen(f, v)) \/ (\E e \in Errors : FetchReject(f, e)))
       /\ WF_vars(FetchFinally(f))

\* Scopes and subscribers: all three scopes, several listeners, one caller.
ScopeArgs == ScopeId \cup {ABSENT}

ScopeNext ==
  \/ \E id \in ScopeId : SetActiveAccountId(id)
  \/ \E s \in ScopeArgs : GetSnapshot(s)
  \/ \E l \in ListenerIds : Subscribe(l)
  \/ \E l \in ListenerIds : Unsubscribe(l)
  \/ \E force \in BOOLEAN, s \in ScopeArgs : Ensure(1, force, s)
  \/ \E v \in Values \cup {NULL}, stale \in BOOLEAN, s \in ScopeArgs : Set(v, stale, s)
  \/ \E s \in ScopeArgs : Clear(s)
  \/ \E s \in ScopeArgs : MarkStale(s)
  \/ \E f \in 1..MaxFetches, v \in Values : FetchThen(f, v)
  \/ \E f \in 1..MaxFetches : FetchFinally(f)
  \/ \E f \in 1..MaxFetches, e \in Errors : FetchReject(f, e)

SpecScope == Init /\ [][ScopeNext]_vars

\* Staleness: the clock advances; one caller, one listener, the active scope.
TimeNext ==
  \/ Tick
  \/ \E l \in {1} : Subscribe(l)
  \/ \E force \in BOOLEAN : Ensure(1, force, ABSENT)
  \/ \E v \in Values \cup {NULL}, stale \in BOOLEAN : Set(v, stale, ABSENT)
  \/ MarkStale(ABSENT)
  \/ \E f \in 1..MaxFetches, v \in Values : FetchThen(f, v)
  \/ \E f \in 1..MaxFetches : FetchFinally(f)
  \/ \E f \in 1..MaxFetches, e \in Errors : FetchReject(f, e)

SpecTime == Init /\ [][TimeNext]_vars

\* The account scope with its listeners, and a store with subscribers.
AccountNext ==
  \/ \E id \in ScopeId : SetActiveAccountId(id)
  \/ \E l \in ListenerIds : SubscribeActiveAccount(l)
  \/ \E l \in ListenerIds : UnsubscribeActiveAccount(l)
  \/ \E l \in ListenerIds : Subscribe(l)
  \/ \E v \in Values, s \in ScopeArgs : Set(v, FALSE, s)
  \/ \E s \in ScopeArgs : Clear(s)

SpecAccount == Init /\ [][AccountNext]_vars

\* The friends sub-cache: every friends operation and fetch completion, in
\* any order, with account switches, on the no-account scope and one account.
FriendLists == {"v1"}

FriendsNext ==
  \/ \E id \in FetchScopes : SetActiveAccountId(id)
  \/ \E force \in BOOLEAN, s \in FetchOptions : EnsureFriends(force, s)
  \/ \E s \in FetchOptions : RefreshFriends(s)
  \/ \E v \in FriendLists, stale \in BOOLEAN, s \in FetchArgs : SetFriends(v, stale, s)
  \/ \E s \in FetchArgs : ClearFriends(s)
  \/ \E s \in FetchArgs : MarkFriendsStale(s)
  \/ \E f \in 1..MaxFriendFetches, v \in FriendLists : FriendsFetchThen(f, v)
  \/ \E f \in 1..MaxFriendFetches : FriendsFetchFinally(f)
  \/ \E f \in 1..MaxFriendFetches : FriendsFetchReject(f)

SpecFriends == Init /\ [][FriendsNext]_vars

\* Notifications: subscribers of the account scope, the store, the friends
\* sub-cache and the alert store, listener 1 throwing on every call, and the
\* operations that notify them.  The alert store shares no state with the
\* other three, so its steps are taken while they are in their initial
\* state, and theirs while it is in its own.
AlertIdle == alertListeners = <<>> /\ alertIds = 0 /\ alertLast.op = "init"

StoresIdle ==
  /\ listeners = <<>> /\ friendListeners = <<>>
  /\ accountListeners = <<StoreListener, FriendsListener>>
  /\ lastOp.op = "init" /\ friendLast.op = "init"

ListenersNext ==
  \/ AlertIdle /\ \E id \in FetchScopes : SetActiveAccountId(id)
  \/ AlertIdle /\ \E l \in ListenerIds : SubscribeActiveAccount(l)
  \/ AlertIdle /\ \E l \in ListenerIds : Subscribe(l)
  \/ AlertIdle /\ \E l \in ListenerIds : SubscribeFriends(l)
  \/ AlertIdle /\ \E v \in FriendLists : Set(v, FALSE, ABSENT)
  \/ AlertIdle /\ Clear(ABSENT)
  \/ AlertIdle /\ \E v \in FriendLists : SetFriends(v, FALSE, ABSENT)
  \/ StoresIdle /\ \E l \in ListenerIds : AlertSubscribe(l)
  \/ StoresIdle /\ addAlert("info", TRUE)
  \/ StoresIdle /\ clearAll

SpecListeners == Init /\ [][ListenersNext]_vars

\* The developer-mode store: every operation and completion in any order.
DevNext ==
  \/ \E l \in {1} : DevSubscribe(l)
  \/ \E c \in Callers : DevEnsure(c)
  \/ \E c \in Callers : DevRefresh(c)
  \/ \E v \in DevValues : DevSet(v)
  \/ DevToggle
  \/ \E v \in DevValues : DevToggleDone(v)
  \/ \E v \in DevValues : DevToggleReject(v)
  \/ DevBackendRead
  \/ \E v \in DevValues : DevFetchThen(v)
  \/ DevFetchFinally
  \/ \E e \in Errors : DevFetchReject(e)

SpecDevMode == Init /\ [][DevNext]_vars

\* The status store with the alert store it writes to: polls and fetches
\* that end in any order, while the user adds and removes alerts of their own.
StatusInputs == {"none", "minor", "critical"}

StatusNext ==
  \/ \E l \in {1} : StatusSubscribe(l)
  \/ FetchStatus
  \/ StartPolling
  \/ PollTick
  \/ StopPolling
  \/ \E i \in StatusInputs : FetchStatusOk(i)
  \/ \E e \in Errors : FetchStatusError(e)
  \/ StatusClear
  \/ addAlert("info", TRUE)
  \/ \E id \in 1..MaxAlerts : removeAlert(id)
  \/ clearAll
  \/ clearDismissable

SpecStatus == Init /\ [][StatusNext]_vars

\* The user store: its user cache and its friends sub-cache written, cleared
\* and marked stale in any order, with account switches and a subscriber each.
UserInputs == {"usr_a", NULL}

UserNext ==
  \/ \E id \in FetchScopes : SetActiveAccountId(id)
  \/ \E l \in {1} : Subscribe(l)
  \/ \E l \in {1} : SubscribeFriends(l)
  \/ \E u \in UserInputs, s \in FetchArgs : UserSet(u, FALSE, s)
  \/ \E s \in FetchArgs : Clear(s)
  \/ \E s \in FetchArgs : MarkStale(s)
  \/ \E v \in FriendLists, s \in FetchArgs : SetFriends(v, FALSE, s)
  \/ \E s \in FetchArgs : ClearFriends(s)
  \/ \E s \in FetchArgs : MarkFriendsStale(s)

SpecUser == Init /\ [][UserNext]_vars

\* The user cache under account switches and backend session changes: the
\* calls the application makes - ensure() and refresh() for the active scope,
\* set(user) with no scope or with the user's id, clear() - and
\* getCurrentUser() answering with the user of whatever session the backend
\* has when it is asked.
SessionNext ==
  \/ \E id \in ScopeId : SetActiveAccountId(id)
  \/ \E force \in BOOLEAN : Ensure(1, force, ABSENT)
  \/ Refresh(1)
  \/ \E u \in Users, stale \in BOOLEAN : UserSet(u, stale, ABSENT)
  \/ \E u \in Users : UserSet(u, FALSE, u)
  \/ Clear(ABSENT)
  \/ \E f \in 1..MaxFetches, u \in Users : UserFetchThen(f, u)
  \/ \E f \in 1..MaxFetches : FetchFinally(f)
  \/ \E f \in 1..MaxFetches, e \in Errors : FetchReject(f, e)

SpecSession == Init /\ [][SessionNext]_vars

\* The accounts store: saves, reads and removals answered by the backend in
\* any order, on one account.
AccountsNext ==
  \/ AccSubscribe(1)
  \/ \E force \in BOOLEAN : AccEnsure(1, force)
  \/ AccRefresh(1)
  \/ \E stale \in BOOLEAN : AccSet({"usr_a"}, stale)
  \/ AccClear
  \/ \E c \in Callers : SaveFromUser(c, "usr_a")
  \/ \E c \in Callers : AccBackendSave(c)
  \/ \E c \in Callers : AccSaveDone(c)
  \/ \E c \in Callers, e \in Errors : AccSaveFailed(c, e)
  \/ AccRemoveAccount("usr_a")
  \/ AccClearAll
  \/ AccRemoveDone("usr_a")
  \/ AccClearAllDone
  \/ \E w \in {"usr_a", "all"} : AccPendingFailed(w)
  \/ AccBackendRead
  \/ AccFetchThen
  \/ AccFetchFinally
  \/ \E e \in Errors : AccFetchReject(e)

SpecAccounts == Init /\ [][AccountsNext]_vars

\* Stores constructed before and after the scope was set, account switches,
\* and the store's own operations in between.
ConstructNext ==
  \/ \E id \in ScopeId : SetActiveAccountId(id)
  \/ Construct
  \/ \E l \in ListenerIds : Subscribe(l)
  \/ \E l \in ListenerIds : Unsubscribe(l)
  \/ \E v \in Values, stale \in BOOLEAN, s \in ScopeArgs : Set(v, stale, s)
  \/ \E s \in ScopeArgs : Clear(s)

SpecConstruct == Init /\ [][ConstructNext]_vars

\* The registry: calls with any key and factory, lookups, module reloads.
RegistryNext ==
  \/ \E k \in RegistryKeys, f \in Factories : registerSingleton(k, f)
  \/ \E k \in RegistryKeys : getSingleton(k)
  \/ ReloadModule

SpecRegistry == Init /\ [][RegistryNext]_vars

\* The alert store: every operation in any order.
AlertNext ==
  \/ \E l \in {1} : AlertSubscribe(l)
  \/ \E l \in {1} : AlertUnsubscribe(l)
  \/ \E v \in {"info", "error"}, d \in BOOLEAN : addAlert(v, d)
  \/ \E id \in 1..MaxAlerts, fields \in SUBSET {"variant", "dismissable"},
        v \in {"info", "error"}, d \in BOOLEAN : updateAlert(id, fields, v, d)
  \/ \E id \in 1..MaxAlerts : removeAlert(id)
  \/ clearAll
  \/ clearDismissable
  \/ nextAlert
  \/ previousAlert
  \/ \E i \in Num(0 - 1)..Num(MaxAlerts) : setCurrentIndex(i)

SpecAlert == Init /\ [][AlertNext]_vars

\* ------------------------------------------------------------------ claims
\* the outstanding chains whose load() was called for the scope with key k
FetchesOf(fs, k) == {f \in DOMAIN fs : scopeKey(fs[f].scope) = k}

Keys == {scopeKey(sc) : sc \in ScopeId}

\* C1: fan-in.  Calls of ensure() for one scope that find no fresh value while
\* a fetch for it is outstanding start no second load(): every such caller
\* follows the one outstanding chain, and when it settles each of them gets
\* its outcome - the value load() fulfilled with, or the one error.
C1_FanIn ==
  [][ /\ \A k \in Keys : Cardinality(FetchesOf(fetches', k)) <= 1
      /\ \A c \in Callers :
           (waiting[c] = 0 /\ waiting'[c] # 0) =>
             LET f == waiting'[c]
                 k == scopeKey(fetches'[f].scope)
             IN /\ f \in DOMAIN fetches'
                /\ states'[k].inflight = f
                /\ FetchesOf(fetches, k) # {} =>
                     (fetches' = fetches /\ FetchesOf(fetches, k) = {f})
      /\ \A f \in DOMAIN fetches :
           f \notin DOMAIN fetches' =>
             /\ {r.caller : r \in settled'} = {c \in Callers : waiting[c] = f}
             /\ \A r1, r2 \in settled' :
                  r1.f = f /\ r1.status = r2.status /\ r1.res = r2.res
             /\ \A r \in settled' :
                  IF fetches[f].phase = "stored"
                    THEN r.status = "fulfilled" /\ r.res = fetches[f].res
                    ELSE r.status = "rejected" /\ r.res \in Errors
    ]_vars

\* two callers resolved by the one chain they both followed
C1_Witness ==
  /\ Cardinality(settled) = 2
  /\ \A r \in settled : r.f # 0 /\ r.status = "fulfilled"

\* C2: in every reachable state each inflight slot that is set holds an
\* outstanding chain whose load() was called for that very scope, and every
\* outstanding chain sits in the slot of its scope; so no scope has two.
C2_InflightSlot ==
  /\ \A k \in DOMAIN states :
       states[k].inflight # 0 =>
         /\ states[k].inflight \in DOMAIN fetches
         /\ scopeKey(fetches[states[k].inflight].scope) = k
  /\ \A f \in DOMAIN fetches :
       /\ scopeKey(fetches[f].scope) \in DOMAIN states
       /\ states[scopeKey(fetches[f].scope)].inflight = f

\* fetches outstanding for both scopes while a write has just interleaved
C2_Witness ==
  /\ lastOp.op \in {"set", "clear", "markStale", "setActiveAccountId"}
  /\ \A k \in {scopeKey(sc) : sc \in FetchScopes} :
       k \in DOMAIN states /\ states[k].inflight # 0

C4_ScopeIsolation ==
  [][ \A A \in ScopeId, v \in Values \cup {NULL}, stale \in BOOLEAN :
        (Set(v, stale, A) /\ A # activeAccountId) =>
          /\ emitted' = <<>>
          /\ snapshot(states', activeAccountId) = snapshot(states, activeAccountId)
          /\ snapshot(states', A) = v
    ]_vars

\* the stale flag debugScopes() reports for the entry with key k
debugStale(k) == isStale(states[k], now)

\* a value that some set() wrote at time updatedAt, not marked stale since
Written(k) == k \in DOMAIN states /\ states[k].cache # NULL /\ states[k].updatedAt # 0

\* C5 as claimed: a value written at t0 is stale exactly from t0 + W on:
\* debugScopes() reports stale iff now >= t0 + W, and ensure() without force
\* returns it without load() iff now < t0 + W.
C5_StaleFromWindow ==
  [][ /\ \A k \in DOMAIN states' :
           (states'[k].cache # NULL /\ states'[k].updatedAt # 0) =>
             (isStale(states'[k], now') <=> now' >= states'[k].updatedAt + StaleTime)
      /\ LET k == scopeKey(activeAccountId)
         IN (Ensure(1, FALSE, ABSENT) /\ Written(k)) =>
              IF now < states[k].updatedAt + StaleTime
                THEN lastOp'.op = "ensureHit"
                ELSE lastOp'.op \in {"ensureLoad", "ensureJoin"}
    ]_vars

\* C5 amended: a value written at t0 is fresh up to and including t0 + W and
\* stale after it: debugScopes() reports stale iff now > t0 + W, and ensure()
\* without force returns it without load() iff now <= t0 + W.
C5_StaleAfterWindow ==
  [][ /\ \A k \in DOMAIN states' :
           (states'[k].cache # NULL /\ states'[k].updatedAt # 0) =>
             (isStale(states'[k], now') <=> now' > states'[k].updatedAt + StaleTime)
      /\ LET k == scopeKey(activeAccountId)
         IN (Ensure(1, FALSE, ABSENT) /\ Written(k)) =>
              IF now <= states[k].updatedAt + StaleTime
                THEN /\ lastOp'.op = "ensureHit"
                     /\ fetches' = fetches
                ELSE /\ lastOp'.op \in {"ensureLoad", "ensureJoin"}
                     /\ waiting'[1] \in DOMAIN fetches'
    ]_vars

\* ensure() served from cache exactly one window after the value was written
C5_Witness ==
  /\ lastOp.op = "ensureHit"
  /\ Written(scopeKey(lastOp.scope))
  /\ now = states[scopeKey(lastOp.scope)].updatedAt + StaleTime
  /\ ~debugStale(scopeKey(lastOp.scope))

\* C6: ensure() without force on a value younger than the window resolves
\* with it at once and calls no load(), no listener, and changes no entry;
\* once the value is older than the window ensure() is not served from the
\* cache: it calls load(), or follows the load() already outstanding.
C6_FreshHit ==
  [][ LET k == scopeKey(activeAccountId)
      IN (Ensure(1, FALSE, ABSENT) /\ Written(k)) =>
           IF now - states[k].updatedAt < StaleTime
             THEN /\ settled' = {Settle(1, 0, "fulfilled", states[k].cache)}
                  /\ fetches' = fetches
                  /\ waiting' = waiting
                  /\ states' = states
                  /\ emitted' = <<>>
             ELSE (now - states[k].updatedAt > StaleTime) =>
                  /\ settled' = {}
                  /\ emitted' = <<>>
                  /\ states'[k].cache = states[k].cache
                  /\ waiting'[1] \in FetchesOf(fetches', k)
                  /\ IF FetchesOf(fetches, k) = {}
                       THEN /\ lastOp'.op = "ensureLoad"
                            /\ fetches'[waiting'[1]].phase = "loading"
                            /\ DOMAIN fetches' = DOMAIN fetches \cup {waiting'[1]}
                       ELSE /\ lastOp'.op = "ensureJoin"
                            /\ fetches' = fetches
    ]_vars

\* the second fetch of the scenario: the value cached at 3 is older than the
\* window (2) at 6, and ensure() has called load() again
C6_Witness ==
  /\ lastOp.op = "ensureLoad"
  /\ Written(scopeKey(lastOp.scope))
  /\ now - states[scopeKey(lastOp.scope)].updatedAt > StaleTime
  /\ states[scopeKey(lastOp.scope)].inflight # 0
  /\ fetches[states[scopeKey(lastOp.scope)].inflight].phase = "loading"

\* C8: subscribe(fn) calls fn, and nobody else, exactly once before it
\* returns, with the snapshot of the active scope, whatever the entry's state;
\* fn is registered afterwards and no cached value changes.
C8_SubscribeReplay ==
  [][ lastOp'.op = "subscribe" =>
        /\ Len(emitted') = 1
        /\ emitted'[1][2] = snapshot(states, activeAccountId)
        /\ \E i \in 1..Len(listeners') : listeners'[i] = emitted'[1][1]
        /\ Len(listeners') > Len(listeners) =>
             emitted'[1][1] = listeners'[Len(listeners')]
        /\ \A sc \in ScopeId : snapshot(states', sc) = snapshot(states, sc)
    ]_vars

\* a second listener subscribed while the active scope is fetching with no
\* value yet: it alone was called, with null
C8_Witness ==
  /\ lastOp.op = "subscribe"
  /\ Len(listeners) = 2
  /\ emitted = << <<listeners[2], NULL>> >>
  /\ states[scopeKey(activeAccountId)].inflight # 0
  /\ activeAccountId # NULL

\* C7: no permanent wedge.  If every outstanding load() settles, a scope
\* whose slot holds a fetch eventually has the slot cleared, and every promise
\* ensure() returned eventually settles.
C7_NoWedge ==
  /\ \A k \in Keys :
       (k \in DOMAIN states /\ states[k].inflight # 0)
         ~> (k \in DOMAIN states /\ states[k].inflight = 0)
  /\ \A c \in Callers : (waiting[c] # 0) ~> (waiting[c] = 0)

\* a fetch that two callers followed has failed and its scope is free again
C7_Witness ==
  /\ lastOp.op = "fetchFailed"
  /\ Cardinality(settled) = 2
  /\ \A c \in Callers : waiting[c] = 0
  /\ \A k \in DOMAIN states : states[k].inflight = 0 /\ states[k].cache = NULL

\* C9: registry identity.  Whatever factories later calls with a key pass,
\* the factory of the first call for that key is the only one ever executed,
\* once; every registerSingleton(key, ...) returns that one instance, and
\* getSingleton(key) constructs nothing and returns it once it exists
\* (undefined before).
C9_RegistryIdentity ==
  [][ /\ \A k \in RegistryKeys :
           /\ registry[k] # 0 => registry'[k] = registry[k]
           /\ IF regCalls'[k] = 0
                THEN factoryRuns'[k] = <<>> /\ registry'[k] = 0
                ELSE /\ Len(factoryRuns'[k]) = 1
                     /\ factoryRuns'[k][1][1] = 1
                     /\ registry'[k] # 0
           /\ \A j \in RegistryKeys : (j # k /\ registry'[k] # 0) => registry'[j] # registry'[k]
      /\ regLast'.op = "registerSingleton" =>
           /\ regLast'.ret = registry'[regLast'.key]
           /\ regLast'.ret # 0
      /\ regLast'.op = "getSingleton" =>
           /\ regLast'.ret = registry[regLast'.key]
           /\ instances' = instances
           /\ factoryRuns' = factoryRuns
           /\ registry' = registry
    ]_vars

\* a third call for a key, with a factory other than the first call's, got
\* the instance the first call's factory built
C9_Witness ==
  /\ regLast.op = "registerSingleton"
  /\ regCalls[regLast.key] = 3
  /\ regLast.factory # factoryRuns[regLast.key][1][2]
  /\ regLast.ret = registry[regLast.key]
  /\ instances = 2

\* C10: alert index invariant.  After any sequence of alert operations the
\* index is within the list when it is not empty and 0 when it is, so that
\* getCurrentAlert() is non-null exactly when there are alerts.
C10_AlertIndex ==
  /\ Len(alerts) > 0 => (0 <= currentIndex /\ currentIndex < Num(Len(alerts)))
  /\ Len(alerts) = 0 => currentIndex = 0
  /\ (getCurrentAlert # 0) <=> (Len(alerts) > 0)

\* C11: alert removal clamp.  removeAlert of the alert at currentIndex, when
\* that alert is the last element of the list, removes it and sets
\* currentIndex to the new length - 1, or to 0 if the list becomes empty.
C11_RemovalClamp ==
  [][ ( /\ alertLast'.op = "removeAlert"
        /\ hasElement(alerts, currentIndex)
        /\ currentIndex = Num(Len(alerts) - 1)
        /\ alerts[Len(alerts)].id = alertLast'.arg )
      => /\ alertLast'.ret = 1
         /\ alerts' = SubSeq(alerts, 1, Len(alerts) - 1)
         /\ currentIndex' = IF Len(alerts') = 0 THEN 0 ELSE Num(Len(alerts') - 1)
    ]_vars

\* the third of three alerts was displayed and has been removed: the index
\* is now on the second
C11_Witness ==
  /\ alertLast.op = "removeAlert"
  /\ alertLast.ret = 1
  /\ alertLast.arg = 3
  /\ alertLast.was = Num(2)
  /\ Len(alerts) = 2
  /\ alerts[1].id = 1 /\ alerts[2].id = 2
  /\ currentIndex = Num(1)

\* C12: alert navigation is circular.  On a list of length n > 0 nextAlert
\* sets currentIndex to (i+1) mod n and previousAlert to (i-1) mod n, so that
\* previousAlert right after nextAlert restores the index and both leave it
\* at 0 on a single-element list; on an empty list both change nothing and
\* notify no subscriber.
C12_CircularNavigation ==
  [][ LET n == Len(alerts)
          i == currentIndex
          nav == alertLast'.op \in {"nextAlert", "previousAlert"}
      IN /\ (alertLast'.op = "nextAlert" /\ n > 0) =>
              currentIndex' = (i + Num(1)) % Num(n)
         /\ (alertLast'.op = "previousAlert" /\ n > 0) =>
              currentIndex' = (i - Num(1)) % Num(n)
         /\ (alertLast'.op = "previousAlert" /\ alertLast.op = "nextAlert" /\ n > 0) =>
              currentIndex' = alertLast.was
         /\ (nav /\ n = 1) => currentIndex' = 0
         /\ (nav /\ n > 0) => alerts' = alerts
         /\ (nav /\ n = 0) =>
              (alerts' = alerts /\ currentIndex' = currentIndex /\ alertEmitted' = <<>>)
    ]_vars

\* C13: clearDismissable.  From any alert list and index, clearDismissable()
\* leaves exactly the non-dismissable alerts in their original order, with
\* currentIndex within the bounds of the list that is left (0 when it is
\* empty); a dismissable alert followed by a non-dismissable one, index 0,
\* leaves the second alert alone and the index at 0.
C13_ClearDismissable ==
  [][ alertLast'.op = "clearDismissable" =>
        /\ alerts' = SelectSeq(alerts, LAMBDA a : ~a.dismissable)
        /\ Len(alerts') > 0 => (0 <= currentIndex' /\ currentIndex' < Num(Len(alerts')))
        /\ Len(alerts') = 0 => currentIndex' = 0
        /\ ( /\ Len(alerts) = 2
             /\ alerts[1].dismissable /\ alerts[1].variant = "info"
             /\ ~alerts[2].dismissable /\ alerts[2].variant = "error"
             /\ currentIndex = 0 )
           => (alerts' = <<alerts[2]>> /\ currentIndex' = 0)
    ]_vars

\* C14: setCurrentIndex(i) with i < 0 or i >= alerts.length, so with any i
\* on an empty list, changes neither the list nor the index and notifies no
\* subscriber, and the call returns normally; with i in range it sets the
\* index to i and notifies every subscriber.
C14_SetCurrentIndex ==
  [][ alertLast'.op = "setCurrentIndex" =>
        LET i == alertLast'.arg
        IN /\ alerts' = alerts
           /\ IF i < 0 \/ i >= Num(Len(alerts))
                THEN currentIndex' = currentIndex /\ alertEmitted' = <<>>
                ELSE /\ currentIndex' = i
                     /\ alertEmitted' =
                          [k \in 1..Len(alertListeners) |->
                             <<alertListeners[k], AlertSnapshot(alerts, i)>>]
    ]_vars

\* setCurrentIndex(2) on a list of two alerts with a subscriber: rejected,
\* the index is where it was and nobody was notified
C14_Witness ==
  /\ alertLast.op = "setCurrentIndex"
  /\ alertLast.arg = Num(2)
  /\ Len(alerts) = 2
  /\ alertLast.was = Num(1)
  /\ currentIndex = Num(1)
  /\ Len(alertListeners) = 1
  /\ alertEmitted = <<>>

\* C15: setActiveAccountId(id).  If id differs from the current id, the
\* scope becomes id and every registered listener is called exactly once
\* with id within the call, the store's own listener among them; if id is
\* the current id, nothing changes and no listener is called.
C15_SetActiveAccountId ==
  [][ lastOp'.op = "setActiveAccountId" =>
        LET id == lastOp'.scope
        IN IF id # currentAccountId
             THEN /\ currentAccountId' = id
                  /\ Len(accountCalls') = Len(accountListeners)
                  /\ \A i \in 1..Len(accountListeners) :
                       accountCalls'[i] = <<accountListeners[i], id>>
                  /\ activeAccountId' = id
                  /\ accountListeners' = accountListeners
             ELSE /\ currentAccountId' = currentAccountId
                  /\ accountCalls' = <<>>
                  /\ emitted' = <<>>
                  /\ activeAccountId' = activeAccountId
                  /\ states' = states
    ]_vars

\* a change to usr_a with two listeners registered besides the stores': each
\* of the four was called once with usr_a
C15_Witness ==
  /\ lastOp = Op("setActiveAccountId", "usr_a")
  /\ currentAccountId = "usr_a"
  /\ Len(accountListeners) = 4
  /\ accountCalls = [i \in 1..4 |-> <<accountListeners[i], "usr_a">>]

\* C17: account switch re-emit.  When setActiveAccountId changes the scope
\* from A to B, the store calls each of its subscribers exactly once with
\* the value cached for B (null if there is none); getSnapshot() without an
\* argument then returns B's value, and A's entry is left as it was.
C17_AccountSwitchReemit ==
  [][ (lastOp'.op = "setActiveAccountId" /\ lastOp'.scope # currentAccountId) =>
        LET A == currentAccountId
            B == lastOp'.scope
            cached == IF scopeKey(B) \in DOMAIN states
                        THEN states[scopeKey(B)].cache ELSE NULL
        IN /\ Len(emitted') = Len(listeners)
           /\ \A i \in 1..Len(listeners) : emitted'[i] = <<listeners[i], cached>>
           /\ activeAccountId' = B
           /\ snapshot(states', activeAccountId') = cached
           /\ scopeKey(A) \in DOMAIN states =>
                states'[scopeKey(A)] = states[scopeKey(A)]
    ]_vars

\* a switch from usr_a, holding v2, to usr_b, holding v1, with two
\* subscribers: both were called with v1
C17_Witness ==
  /\ lastOp = Op("setActiveAccountId", "usr_b")
  /\ activeAccountId = "usr_b"
  /\ Len(listeners) = 2
  /\ "usr_a" \in DOMAIN states /\ states["usr_a"].cache = "v2"
  /\ states["usr_b"].cache = "v1"
  /\ emitted = [i \in 1..2 |-> <<listeners[i], "v1">>]

\* C18: clear() forces EMPTY.  After clear(scope), from any prior state of
\* that scope (EMPTY, FETCHING, FRESH or STALE), the entry has no value,
\* updatedAt 0 and no fetch in flight.
C18_ClearForcesEmpty ==
  [][ lastOp'.op = "clear" =>
        LET entry == states'[scopeKey(lastOp'.scope)]
        IN entry.cache = NULL /\ entry.updatedAt = 0 /\ entry.inflight = 0
    ]_vars

FriendCallsOf(fs, k) ==
  {f \in DOMAIN fs : friendsScopeKey(fs[f].scope) = k /\ fs[f].phase = "loading"}

\* C19: friends sub-cache fan-in.  After any interleaving of ensureFriends,
\* refreshFriends, setFriends, clearFriends, markFriendsStale and fetch
\* completions, at most one getOnlineFriends() call is outstanding per scope.
C19_FriendsFanIn ==
  \A k \in Keys : Cardinality(FriendCallsOf(friendFetches, k)) <= 1

\* every listener of ls, in order, was called once with value
Notified(calls, ls, value) ==
  /\ Len(calls) = Len(ls)
  /\ \A i \in 1..Len(ls) : calls[i] = <<ls[i], value>>

\* C16: listener-failure isolation.  When a subscriber throws during a
\* change notification - an account change, a store set() or clear(), a
\* setFriends(), an alert mutation - every registered subscriber, also one
\* registered after the throwing one, is still called for the change, and
\* the operation completes with its state change applied.
C16_ListenerIsolation ==
  [][ /\ \A id \in ScopeId : (SetActiveAccountId(id) /\ id # currentAccountId) =>
           /\ currentAccountId' = id /\ activeAccountId' = id
           /\ Notified(accountCalls', accountListeners, id)
           /\ Notified(emitted', listeners, snapshot(states, id))
           /\ Notified(friendEmitted', friendListeners,
                       getFriendsSnapshot(friendStates, id))
      /\ \A v \in Values : Set(v, FALSE, ABSENT) =>
           /\ states'[scopeKey(activeAccountId)].cache = v
           /\ Notified(emitted', listeners, v)
      /\ Clear(ABSENT) =>
           /\ states'[scopeKey(activeAccountId)].cache = NULL
           /\ Notified(emitted', listeners, NULL)
      /\ \A v \in Values : SetFriends(v, FALSE, ABSENT) =>
           /\ friendStates'[friendsScopeKey(activeAccountId)].cache = v
           /\ Notified(friendEmitted', friendListeners, v)
      /\ (\E v \in {"info", "error"}, d \in BOOLEAN : addAlert(v, d)) =>
           /\ Len(alerts') = Len(alerts) + 1
           /\ Notified(alertEmitted', alertListeners,
                       AlertSnapshot(alerts', currentIndex'))
      /\ clearAll =>
           /\ alerts' = <<>>
           /\ Notified(alertEmitted', alertListeners, AlertSnapshot(<<>>, 0))
    ]_vars

\* set("v1") with the throwing listener subscribed before listener 2: both
\* were called and the value is cached
C16_Witness ==
  /\ lastOp = Op("set", activeAccountId)
  /\ listeners = <<1, 2>>
  /\ 1 \in ThrowingListeners
  /\ emitted = << <<1, "v1">>, <<2, "v1">> >>
  /\ states[scopeKey(activeAccountId)].cache = "v1"

\* C21: a fetch ensure() started for target scope S writes the value load()
\* fulfilled with to the entry of S and changes no other entry, for every S
\* including null, whatever the active scope is when it resolves; it calls
\* the subscribers only if S is the active scope at that moment.
C21_FetchWritesTarget ==
  [][ \A f \in DOMAIN fetches, v \in Values :
        FetchThen(f, v) =>
          LET S == fetches[f].scope
          IN /\ states'[scopeKey(S)].cache = v
             /\ \A k \in DOMAIN states' \ {scopeKey(S)} :
                  k \in DOMAIN states /\ states'[k] = states[k]
             /\ (S # activeAccountId => emitted' = <<>>)
    ]_vars

\* C22: set(value, {stale, scopeId}) leaves the entry it writes with the
\* value and with updatedAt = now exactly when the value is not null and
\* stale is not true, and 0 otherwise.  So set(v, {stale: true}) leaves an
\* entry whose snapshot is v and which is reported stale, and ensure()
\* without force on such an entry returns no cached value: it calls load(),
\* or follows the load() already outstanding for the scope.
C22_SetUpdatedAt ==
  [][ /\ \A v \in Values \cup {NULL}, stale \in BOOLEAN, s \in FetchArgs :
           Set(v, stale, s) =>
             LET k == scopeKey(lastOp'.scope)
             IN /\ snapshot(states', lastOp'.scope) = v
                /\ states'[k].updatedAt = IF v # NULL /\ ~stale THEN now ELSE 0
                /\ (v # NULL /\ stale) => isStale(states'[k], now')
      /\ \A c \in Callers, s \in FetchOptions :
           LET k == scopeKey(ensureTarget(s, activeAccountId))
           IN ( /\ Ensure(c, FALSE, s)
                /\ k \in DOMAIN states
                /\ states[k].cache # NULL /\ states[k].updatedAt = 0 ) =>
                  /\ settled' = {}
                  /\ waiting'[c] \in DOMAIN fetches'
                  /\ fetches'[waiting'[c]].phase = "loading" \/ states[k].inflight # 0
                  /\ lastOp'.op = IF states[k].inflight = 0 THEN "ensureLoad"
                                                            ELSE "ensureJoin"
    ]_vars

\* set("v1", {stale: true}) at a time later than the start: the value is the
\* snapshot, updatedAt is 0 and the entry is stale
C22_Witness ==
  /\ lastOp = Op("set", activeAccountId)
  /\ now > StartTime
  /\ states[scopeKey(activeAccountId)].cache = "v1"
  /\ states[scopeKey(activeAccountId)].updatedAt = 0
  /\ isStale(states[scopeKey(activeAccountId)], now)

C25_DevRefreshFailure ==
  [][ \A e \in Errors :
        (DevFetchReject(e) /\ devLast.op = "refresh") =>
          \A c \in Callers :
            devWaiting[c].op = "refresh" =>
              /\ Settle(c, 1, "rejected", e) \in devSettled'
              /\ devCache' = devWaiting[c].before
    ]_vars

\* C26: a successful fetchStatus() with indicator "none" leaves no alert the
\* status store created in the alert store and forgets the alert's id; the
\* id then stays forgotten until a successful fetch with another indicator,
\* and that fetch adds a new alert, with the variant of the indicator, and
\* keeps its id.
C26_StatusAlertRemoved ==
  [][ /\ FetchStatusOk("none") =>
           /\ statusAlertId' = 0
           /\ \A i \in 1..Len(alerts') : alerts'[i].id \notin statusCreated'
      /\ (statusAlertId = 0 /\ statusAlertId' # 0) =>
           /\ statusLast'.op = "fetchOk"
           /\ statusLast'.scope \in Indicators \ {"none"}
      /\ \A ind \in Indicators \ {"none"} :
           (FetchStatusOk(ind) /\ statusAlertId = 0) =>
             LET new == alerts'[Len(alerts')]
             IN /\ Len(alerts') = Len(alerts) + 1
                /\ \A i \in 1..Len(alerts) : alerts'[i] = alerts[i] /\ alerts[i].id # new.id
                /\ new.id \in statusCreated' \ statusCreated
                /\ new.variant = variantOf(ind)
                /\ statusAlertId' = new.id
    ]_vars

\* a fetch with indicator "none" has just removed the alert the status store
\* had created, and an alert of the user is still in the list
C26_Witness ==
  /\ statusLast = Op("fetchOk", "none")
  /\ alertLast.op = "removeAlert" /\ alertLast.ret = 1
  /\ alertLast.arg \in statusCreated
  /\ statusAlertId = 0
  /\ Len(alerts) > 0

\* the scopes debugScopes() reports: every entry of the map, and the active
\* scope also when it has no entry
debugScopes(st, active) == DOMAIN st \cup {scopeKey(active)}

\* C27: getSnapshot(scope) is a pure read for every scope, also one the store
\* has never seen: it calls no subscriber, starts no fetch and leaves every
\* entry and the list of scopes debugScopes() reports as they were.
C27_GetSnapshotPure ==
  [][ \A s \in ScopeArgs :
        GetSnapshot(s) =>
          /\ emitted' = <<>>
          /\ fetches' = fetches
          /\ \A k \in DOMAIN states : k \in DOMAIN states' /\ states'[k] = states[k]
          /\ debugScopes(states', activeAccountId') = debugScopes(states, activeAccountId)
    ]_vars

C29_UpdateRemoveById ==
  [][ LET present == \E i \in 1..Len(alerts) : alerts[i].id = alertLast'.arg
      IN /\ (alertLast'.op \in {"updateAlert", "removeAlert"} /\ ~present) =>
              /\ alertLast'.ret = 0
              /\ alerts' = alerts
              /\ currentIndex' = currentIndex
              /\ alertEmitted' = <<>>
         /\ (alertLast'.op = "updateAlert" /\ present) =>
              /\ alertLast'.ret = 1
              /\ Len(alerts') = Len(alerts)
              /\ \A j \in 1..Len(alerts) :
                   /\ alerts'[j].id = alerts[j].id
                   /\ alerts[j].id # alertLast'.arg => alerts'[j] = alerts[j]
              /\ currentIndex' = currentIndex
              /\ alertEmitted' = alertEmit(alertListeners, alerts', currentIndex)
    ]_vars

\* updateAlert() has changed the second of the alerts while the first is the
\* current one, and the subscriber was called once
C29_Witness ==
  /\ alertLast.op = "updateAlert" /\ alertLast.ret = 1
  /\ Len(alerts) >= 2
  /\ alertLast.arg = alerts[2].id
  /\ alerts[2].variant = "error" /\ alerts[1].variant = "info"
  /\ currentIndex = 0
  /\ alertListeners = <<1>>
  /\ Len(alertEmitted) = 1

\* C30: tenant consistency of the user store.  In every reachable state the
\* entry of every account scope S that holds a user holds the user whose id
\* is S.
C30_TenantConsistency ==
  \A S \in Accounts :
    (scopeKey(S) \in DOMAIN states /\ states[scopeKey(S)].cache # NULL) =>
      states[scopeKey(S)].cache = S

\* the alerts in the alert store that the status store created
statusAlerts(as) == {k \in 1..Len(as) : as[k].id \in statusCreated}

\* C31: after every successful fetchStatus() that reports an indicator other
\* than "none", the alert store holds exactly one alert of the status store,
\* and its variant is the one the indicator maps to - whatever other callers
\* did to the alert store since the previous fetch.
C31_StatusAlertPresent ==
  [][\A i \in Indicators \ {"none"} :
       FetchStatusOk(i) =>
         LET own == {k \in 1..Len(alerts') : alerts'[k].id \in statusCreated'}
         IN /\ Cardinality(own) = 1
            /\ \A k \in own : alerts'[k].variant = variantOf(i)]_vars

\* C32: in every reachable state the alert store holds at most one alert
\* that the status store created.
C32_AtMostOneStatusAlert == Cardinality(statusAlerts(alerts)) <= 1

\* a second fetch answered while the alert of the first is displayed, after a
\* clear() in between had removed an earlier alert of the status store
C32_Witness ==
  /\ Cardinality(statusCreated) >= 2
  /\ Cardinality(statusAlerts(alerts)) = 1
  /\ statusLast.op = "fetchOk"
  /\ statusAlertId # 0

\* the position of the alert with the given id in the list, 0 if it has none
positionOf(as, id) ==
  IF \E k \in 1..Len(as) : as[k].id = id
    THEN CHOOSE k \in 1..Len(as) : as[k].id = id ELSE 0

\* C33: while an alert is displayed, removeAlert(id) of another alert of the
\* list leaves getCurrentAlert() returning the alert it returned before,
\* whether the removed alert sits before or after currentIndex.
C33_RemoveKeepsCurrent ==
  [][\A id \in 1..MaxAlerts :
       (/\ removeAlert(id)
        /\ hasElement(alerts, currentIndex)
        /\ positionOf(alerts, id) # 0
        /\ getCurrentAlert # id)
       => getCurrentAlert' = getCurrentAlert]_vars

\* C34: once toggle() has resolved with v and no set(), toggle() or
\* refresh() was called since, getSnapshot() returns v whenever no backend
\* read and no toggle() is outstanding - also when a read was in flight while
\* toggle() ran.
C34_ToggleWins ==
  (/\ devToggled # NULL
   /\ devInflight = 0
   /\ devFetch.phase = "none"
   /\ devToggles = {})
  => devCache = devToggled

\* C35: the promise of saveFromUser(user) is fulfilled only by a
\* getAllAccounts() call that was issued after the caller's
\* saveCurrentAccount(user) had completed, also when a read was outstanding
\* when saveFromUser() was called.
C35_SaveThenFreshRead ==
  [][AccFetchFinally =>
       \A c \in Callers :
         accWaiting[c].op = "saved" => accFetch.issued >= accWaiting[c].saveNo]_vars

C37_ScopeAgreement == activeAccountId = currentAccountId

\* a store constructed while usr_a was active, after a switch to usr_b
C37_Witness ==
  /\ lastOp = Op("setActiveAccountId", "usr_b")
  /\ activeAccountId = "usr_b"
  /\ DOMAIN states = {"usr_a", "usr_b"}

\* C38: when the backend returns an error result or throws, the promise of
\* fetchStatus() is fulfilled, isLoading is false and error is not null, the
\* cached status is the one cached before, the alert store is unchanged and
\* every subscriber is told the new state.
C38_FetchStatusFailure ==
  [][\A e \in Errors :
       FetchStatusError(e) =>
         /\ statusSettled' = {"fulfilled"}
         /\ statusLoading' = FALSE
         /\ statusError' # NULL
         /\ statusStatus' = statusStatus
         /\ statusAlertId' = statusAlertId
         /\ UNCHANGED <<alerts, currentIndex, alertIds, alertListeners>>
         /\ alertEmitted' = alertEmitted
    ]_vars

\* a failed fetch while an incident is cached and displayed as an alert
C38_Witness ==
  /\ statusLast.op = "fetchError"
  /\ statusSettled = {"fulfilled"}
  /\ statusStatus = "critical"
  /\ statusError = "network"
  /\ ~statusLoading
  /\ \E k \in 1..Len(alerts) : alerts[k].id = statusAlertId

\* C39: at most one polling timer is running at any time; startPolling()
\* starts exactly one fetch at once and leaves one timer running;
\* stopPolling() leaves none running, and a fetch is started by polling only
\* while the store holds a timer, so never after stopPolling().
C39_OnePollingTimer ==
  [][/\ Cardinality(statusTimers') <= 1
     /\ StartPolling => /\ statusPending' = statusPending + 1
                        /\ statusTimers' = {statusPolling'}
                        /\ statusPolling' # 0
     /\ StopPolling => statusTimers' = {} /\ statusPolling' = 0
     /\ PollTick => statusPolling # 0 /\ statusTimers = {statusPolling}
    ]_vars

\* startPolling() called again while the fetch of the first call is
\* outstanding: the timer was replaced
C39_Witness ==
  /\ statusLast.op = "startPolling"
  /\ statusPending = 2
  /\ Cardinality(statusTimers) = 1
  /\ statusPolling \in statusTimers

\* const scopeId = rawKey === DEFAULT_SCOPE_KEY ? null : rawKey
scopeOfKey(rawKey) == IF rawKey = DEFAULT_SCOPE_KEY THEN NULL ELSE rawKey

\* the record debugScopes() pushes for the entry with key rawKey (ageMs, which
\* no flag depends on, is left out)
debugRecord(st, rawKey, active, t) ==
  [scopeId |-> scopeOfKey(rawKey),
   cache |-> st[rawKey].cache,
   updatedAt |-> st[rawKey].updatedAt,
   stale |-> isStale(st[rawKey], t),
   inflight |-> st[rawKey].inflight # 0,
   isActiveScope |-> scopeOfKey(rawKey) = active]

\* the record pushed for the active scope when the map has no entry for it
debugSynthesized(active) ==
  [scopeId |-> active, cache |-> NULL, updatedAt |-> 0, stale |-> TRUE,
   inflight |-> FALSE, isActiveScope |-> TRUE]

\* the place of (scopeId ?? '') in the order of localeCompare
nameRank(scopeId) ==
  IF scopeId = NULL THEN 0 ELSE IF scopeId = "usr_a" THEN 1 ELSE 2

\* mutant: the records are ordered by name only
debugBeforeByName(a, b) == nameRank(a.scopeId) < nameRank(b.scopeId)

\* the comparator of scopes.sort() returns a negative number for (a, b)
debugBefore(a, b) ==
  \/ a.isActiveScope /\ ~b.isActiveScope
  \/ a.isActiveScope = b.isActiveScope /\ nameRank(a.scopeId) < nameRank(b.scopeId)

\* debugScopes(): the records in the order scopes.sort() leaves them in
debugScopesSorted(st, active, t) ==
  LET pushed == {debugRecord(st, k, active, t) : k \in DOMAIN st}
                  \cup (IF scopeKey(active) \in DOMAIN st
                          THEN {} ELSE {debugSynthesized(active)})
  IN [i \in 1..Cardinality(pushed) |->
        CHOOSE r \in pushed :
          Cardinality({q \in pushed : debugBefore(q, r)}) = i - 1]

\* C40: debugScopes() returns one record for every entry of the store and
\* for the active scope, exactly one record has isActiveScope true and it is
\* the first, the others follow in the order of their scope ids, and every
\* record's stale and inflight flags are the staleness of the entry and
\* whether a fetch is outstanding for that scope.
C40_DebugScopes ==
  LET d == debugScopesSorted(states, activeAccountId, now)
      n == Len(d)
  IN /\ {d[i].scopeId : i \in 1..n} =
          {scopeOfKey(k) : k \in DOMAIN states} \cup {activeAccountId}
     /\ \A i, j \in 1..n : d[i].scopeId = d[j].scopeId => i = j
     /\ {i \in 1..n : d[i].isActiveScope} = {1}
     /\ d[1].scopeId = activeAccountId
     /\ \A i, j \in 2..n : i < j => nameRank(d[i].scopeId) < nameRank(d[j].scopeId)
     /\ \A i \in 1..n :
          LET k == scopeKey(d[i].scopeId)
          IN k \in DOMAIN states =>
               /\ d[i].stale = isStale(states[k], now)
               /\ d[i].inflight =
                    (\E f \in DOMAIN fetches : scopeKey(fetches[f].scope) = k)

\* usr_b is active; the no-account scope and usr_a are listed after it, the
\* first stale and the second fresh with a forced fetch outstanding
C40_Witness ==
  LET d == debugScopesSorted(states, activeAccountId, now)
  IN /\ Len(d) = 3
     /\ d[1].scopeId = "usr_b" /\ d[2].scopeId = NULL /\ d[3].scopeId = "usr_a"
     /\ d[2].stale /\ ~d[3].stale /\ d[3].inflight /\ ~d[1].inflight

TypeOK ==
  /\ currentAccountId \in ScopeId
  /\ activeAccountId \in ScopeId
  /\ now \in StartTime..MaxTime
====
